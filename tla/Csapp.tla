------------------------------- MODULE Csapp -------------------------------
(***************************************************************************)
(* The semaphore wrappers of csapp.c.  An operator takes the variable that *)
(* stands for the semaphore; a call that blocks is an action that is not   *)
(* enabled.  sem_wait and sem_post are atomic.  The error branches         *)
(* (unix_error) are left out: with a valid semaphore sem_wait fails only   *)
(* with EINTR, and every handler of the server is installed with           *)
(* SA_RESTART and ends in exit.                                            *)
(***************************************************************************)
EXTENDS Integers

\* sem_wait: wait for a positive value and take one.
P(sem) == sem > 0 /\ sem' = sem - 1

\* sem_post: give one back; never blocks.
V(sem) == sem' = sem + 1
=============================================================================
