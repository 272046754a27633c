------------------------------- MODULE MCAccounts -------------------------------
(* AccountWork for TLC: two requests at a time, two email addresses, one      *)
(* client address.  Each element of MCStarts allows some of the requests.     *)
EXTENDS AccountWork, TLC

CONSTANTS u1, u2, p1, p2, n1, n2, d1, d2, r1, r2

MCLimit == [k \in {"login", "password-reset"} |-> 2]

Row(n, u) == [reg |-> n, email |-> u, complete |-> TRUE]
\* A duplicate number, and an address that changes hands.
MCFiles == {<<Row(n1, u1), [reg |-> n1, email |-> u2, complete |-> FALSE], Row(n1, u2),
              Row(n2, u2)>>,
            <<Row(n1, u2)>>}

WithPassword == [FreshAccount({"FOCAL"}) EXCEPT !.password = p1]
Only(u, row) == [v \in {u1, u2} |-> IF v = u THEN row ELSE NoUser]

MCStarts == {
  [kinds |-> {"login", "disable"}, people |-> {u1, u2}, secrets |-> {p1, p2},
   calls |-> 3, links |-> 0, crashes |-> 1,
   users |-> Only(u1, WithPassword), stored |-> {}],
  [kinds |-> {"login", "link"}, people |-> {u1}, secrets |-> {p1, p2},
   calls |-> 1, links |-> 1, crashes |-> 0,
   users |-> Only(u1, WithPassword), stored |-> {}],
  [kinds |-> {"import", "admin"}, people |-> {u1, u2}, secrets |-> {p1},
   calls |-> 0, links |-> 1, crashes |-> 0,
   users |-> Only(u1, NoUser), stored |-> {}],
  [kinds |-> {"import", "link"}, people |-> {u1}, secrets |-> {p1},
   calls |-> 1, links |-> 1, crashes |-> 0,
   users |-> Only(u1, FreshAccount({"FOCAL"})), stored |-> {}],
  [kinds |-> {"link"}, people |-> {u1}, secrets |-> {p1},
   calls |-> 3, links |-> 2, crashes |-> 1,
   users |-> Only(u1, WithPassword), stored |-> {}],
  [kinds |-> {"retention"}, people |-> {}, secrets |-> {},
   calls |-> 0, links |-> 0, crashes |-> 1,
   users |-> Only(u1, NoUser), stored |-> {d1}]}

\* One account and its links, for the violation runs.
LinkStarts == {
  [kinds |-> {"link"}, people |-> {u1}, secrets |-> {p1}, calls |-> 1, links |-> 1,
   crashes |-> 0, users |-> Only(u1, WithPassword), stored |-> {}]}

ImportStarts == {
  [kinds |-> {"import", "link"}, people |-> {u1}, secrets |-> {p1}, calls |-> 1, links |-> 1,
   crashes |-> 0, users |-> Only(u1, FreshAccount({"FOCAL"})), stored |-> {}]}
================================================================================
