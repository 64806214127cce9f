--------------------------- MODULE MCAuditAdapter ---------------------------
(* A session of three players.  b0 names a dependency twice, a1 needs a    *)
(* chain of two, x0 equivocates with b0 and waits for the same event, m1   *)
(* names a wrong id for one hash, t0 depends on m1 and never completes.    *)
EXTENDS AuditAdapter

Id(p, c) == [peer |-> p, counter |-> c]

Signed(p, c, d, deps, hashes) ==
  [id |-> Id(p, c), digest |-> d, deps |-> deps, dep_hashes |-> hashes,
   author_key |-> p, authentic |-> TRUE]

A0 == Signed("a", 0, "a0", <<>>, <<>>)
B0 == Signed("b", 0, "b0", <<Id("a", 0), Id("a", 0)>>, <<"a0", "a0">>)
C0 == Signed("c", 0, "c0", <<Id("b", 0), Id("b", 0)>>, <<"b0", "b0">>)
A1 == Signed("a", 1, "a1", <<Id("c", 0), Id("a", 0)>>, <<"c0", "a0">>)
X0 == Signed("b", 0, "x0", <<Id("a", 0)>>, <<"a0">>)
M1 == Signed("b", 1, "m1", <<Id("a", 0)>>, <<"b0">>)
T0 == Signed("c", 1, "t0", <<Id("b", 1)>>, <<"m1">>)

MCSignedEvents ==
  {A0, B0, C0, A1, X0, M1, T0,
   [A0 EXCEPT !.author_key = "b"], [C0 EXCEPT !.authentic = FALSE]}

MCRoster == {<<"a", "a">>, <<"b", "b">>, <<"c", "c">>}

=============================================================================
