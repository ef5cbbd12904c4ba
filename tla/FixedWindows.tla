---------------------------- MODULE FixedWindows ----------------------------
(***************************************************************************)
(* What the rate limiter promises: a client's first request opens a window,*)
(* a window lasts as long whatever is asked during it, and no more than    *)
(* Limit requests pass in one.  RateLimit is the code.                     *)
(***************************************************************************)
EXTENDS Integers

CONSTANTS
  Clients,
  Limit,      (* requests that pass in a window                            *)
  Window      (* ticks a window lasts after the one it opens in            *)

VARIABLES
  left,       (* ticks left of each client's window; -1: none is open      *)
  admitted    (* requests that have passed in it                           *)

Closed == -1

Init ==
  /\ left = [c \in Clients |-> Closed]
  /\ admitted = [c \in Clients |-> 0]

Open(c) ==
  /\ left[c] = Closed
  /\ left' = [left EXCEPT ![c] = Window]
  /\ admitted' = [admitted EXCEPT ![c] = 1]

Admit(c) ==
  /\ left[c] # Closed /\ admitted[c] < Limit
  /\ admitted' = [admitted EXCEPT ![c] = @ + 1]
  /\ UNCHANGED left

Tick ==
  /\ left' = [c \in Clients |-> IF left[c] = Closed THEN Closed ELSE left[c] - 1]
  /\ admitted' = [c \in Clients |-> IF left[c] > 0 THEN admitted[c] ELSE 0]

Next == Tick \/ \E c \in Clients : Open(c) \/ Admit(c)

Spec == Init /\ [][Next]_<<left, admitted>>
=============================================================================
