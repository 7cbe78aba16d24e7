----------------------------- MODULE MCGameApi -----------------------------
(* Two threads of a game.                                                  *)
EXTENDS GameApi

CONSTANTS t1, t2

MCThreads == {t1, t2}
MCUserIndexes == 0..2
===============================================================================
