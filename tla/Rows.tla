-------------------------------- MODULE Rows --------------------------------
(***************************************************************************)
(* The rows that tools return and the retrieval layer reads: JSON objects, *)
(* here records that may lack a field.  Identifiers, services, metrics and *)
(* messages are names <<prefix, number>>, as _next_id makes them; << >>    *)
(* stands for None and for the empty string, which the code tests alike.   *)
(***************************************************************************)
EXTENDS Lists

None == << >>

\* row.get(field, default), and what a Pydantic model with that default reads.
Get(row, field, default) == IF field \in DOMAIN row THEN row[field] ELSE default

\* The distinct values of a field, in the order they first appear: dict order.
Distinct(rows, field) ==
  LET firsts == ItemsAt(rows,
        {i \in DOMAIN rows : \A j \in 1..(i - 1) : rows[j][field] # rows[i][field]})
  IN [k \in DOMAIN firsts |-> firsts[k][field]]

With(rows, field, value) == ItemsAt(rows, {i \in DOMAIN rows : Get(rows[i], field, None) = value})

\* The order of the fixtures, and of a metric's points.
Earlier(a, b) == a.timestamp < b.timestamp
=============================================================================
