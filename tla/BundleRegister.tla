--------------------------- MODULE BundleRegister ---------------------------
(***************************************************************************)
(* What a detector bundle promises to its users: a register.  `gnnid train` *)
(* replaces the detector in it, `gnnid score` and `gnnid eval` get the last *)
(* one back, whole, unless a replacement was killed since.  Trainings are  *)
(* numbered in the order they happen.                                      *)
(***************************************************************************)
EXTENDS Naturals

VARIABLES
  current,  \* the training whose detector the register holds, 0 before any
  got,      \* the training whose detector the last command got, 0: none yet
  intact    \* no replacement was killed since the last one that was not

registerVars == <<current, got, intact>>

RegisterInit == current = 0 /\ got = 0 /\ intact = TRUE

Replace == current' = current + 1 /\ got' = 0 /\ intact' = TRUE

Break == intact /\ intact' = FALSE /\ UNCHANGED <<current, got>>

Get ==
  /\ current # 0
  /\ got' \in Nat
  /\ intact => got' = current
  /\ UNCHANGED <<current, intact>>

RegisterSpec == RegisterInit /\ [][Replace \/ Break \/ Get]_registerVars
=============================================================================
