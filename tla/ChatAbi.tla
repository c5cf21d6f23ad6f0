------------------------------ MODULE ChatAbi -------------------------------
(***************************************************************************)
(* The contract of liblogoschat.h between the library and the one thread   *)
(* of a program that calls it, as the header states it: which calls are    *)
(* legal when, who owns the strings, and what logoschat_last_error tells.  *)
(* One handle is open at a time.                                           *)
(***************************************************************************)
EXTENDS Naturals

VARIABLES
  handle,  \* "none", "open", or "shut": invalid
  strings, \* number of strings the caller owns
  pump,    \* whether an event callback is registered for the handle
  calls,   \* number of fallible calls this thread has made
  error    \* the call whose error the thread's last error is; 0 is ""

abi == <<handle, strings, pump, calls, error>>

Init == handle = "none" /\ strings = 0 /\ pump = FALSE /\ calls = 0 /\ error = 0

\* logoschat_gen_address: no handle, and the caller frees.
GenAddress == strings' = strings + 1 /\ UNCHANGED <<handle, pump, calls, error>>

\* logoschat_open and logoschat_open_persistent, successful.
Open ==
  /\ handle # "open"
  /\ handle' = "open" /\ pump' = FALSE /\ calls' = calls + 1
  /\ UNCHANGED <<strings, error>>

\* A null or -1: nothing has changed but the thread's last error.
Fails ==
  /\ calls' = calls + 1 /\ error' = calls'
  /\ UNCHANGED <<handle, strings, pump>>

\* A verb that returns a string, which the caller frees.
Gives ==
  /\ handle = "open"
  /\ strings' = strings + 1 /\ calls' = calls + 1
  /\ UNCHANGED <<handle, pump, error>>

\* A verb that returns 0.
Does ==
  /\ handle = "open"
  /\ calls' = calls + 1
  /\ UNCHANGED <<handle, strings, pump, error>>

\* logoschat_set_event_callback: once per handle.
SetEventCallback ==
  /\ handle = "open" /\ ~pump
  /\ pump' = TRUE /\ calls' = calls + 1
  /\ UNCHANGED <<handle, strings, error>>

\* logoschat_free_string, of one string or of several one after the other.
FreeString ==
  /\ strings' \in 0 .. strings
  /\ UNCHANGED <<handle, pump, calls, error>>

\* logoschat_shutdown: the handle is invalid after.
Shutdown ==
  /\ handle = "open"
  /\ handle' = "shut"
  /\ UNCHANGED <<strings, pump, calls, error>>

\* The process ends, and what it held with it.
End == handle' = "none" /\ strings' = 0 /\ pump' = FALSE /\ calls' = 0 /\ error' = 0

Next ==
  \/ GenAddress \/ Open \/ Fails \/ Gives \/ Does
  \/ SetEventCallback \/ FreeString \/ Shutdown \/ End

Spec == Init /\ [][Next]_abi
=============================================================================
