---------------------------- MODULE MCMinimizer ----------------------------
(* Up to four statements, among them a declaration, with nested parentheses. *)
EXTENDS Minimizer

Stmt(at, decl, parens) == [id |-> at, decl |-> decl, parens |-> parens]
SomeBodies ==
  { << >>,
    << Stmt(1, TRUE, {1}), Stmt(2, FALSE, {}), Stmt(3, FALSE, {1, 2}) >>,
    << Stmt(1, FALSE, {}), Stmt(2, TRUE, {}), Stmt(3, FALSE, {1}), Stmt(4, FALSE, {}) >> }
=============================================================================
