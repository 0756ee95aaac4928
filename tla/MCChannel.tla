----------------------------- MODULE MCChannel -----------------------------
(* Three actors: two send to one over mpsc, or one sends to two over mpmc. *)
EXTENDS Channel

CONSTANTS c1, c2, p1

MCSetups == {<<"mpsc", {c1, p1}>>, <<"mpmc", {c1}>>}
=============================================================================
