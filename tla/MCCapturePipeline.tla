-------------------------- MODULE MCCapturePipeline --------------------------
(* Every kind of message of one user, who may name another as payer, and some  *)
(* of a stranger and of an anonymous proxy, for TLC.                           *)
EXTENDS CapturePipeline

CONSTANTS ann, bob, eve, proxy, k1, k2, acc, nobody

People   == {ann, bob, eve, proxy}
Ours     == {ann, bob}
Hidden   == {proxy}
Only     == {acc}
TwoKeys  == {k1, k2}

MCMessages ==
    [user : {ann}, group : BOOLEAN, kind : Kinds, payer : {ann}]
      \cup [user : {ann}, group : BOOLEAN, kind : {"photo", "text"}, payer : {bob, nobody}]
      \cup [user : {eve, proxy}, group : BOOLEAN, kind : {"photo", "start"}, payer : {ann}]
=============================================================================
