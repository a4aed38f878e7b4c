----------------------------- MODULE Condition -----------------------------
(***************************************************************************)
(* A condition variable (src/base/Condition.h) is the set of the threads   *)
(* that wait on it.  A thread that is woken, by a notification or          *)
(* spuriously, takes the mutex and tests its condition again; the steps of *)
(* the modules that use this one are critical sections of that mutex.      *)
(***************************************************************************)

wait(waiting, t) == waiting \cup {t}

\* The sets that may be left: one waiting thread is woken, if there is one.
notify(waiting) ==
  IF waiting = {} THEN {{}} ELSE {waiting \ {t} : t \in waiting}

notifyAll(waiting) == {}

===========================================================================
