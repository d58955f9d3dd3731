---- MODULE SecurityOfficer ----
(***************************************************************************)
(* The failure counter of src/source/security.cpp: what                    *)
(* report_signature_result makes of failed_attempts, and when it calls     *)
(* panic_wipe.  The clock is left to the caller: quick says that the last  *)
(* failure was less than 30 s ago by the 32-bit count of milliseconds,     *)
(* which starts at 0 like last_fail_time and wraps after 49 days.          *)
(***************************************************************************)
EXTENDS Integers

CONSTANTS
    FloodThreshold,  \* quick failures that are still tolerated (50 in the code)
    HardLimit        \* the limit of the second check (100)

ASSUME OfficerAssumption ==
    /\ FloodThreshold \in Nat
    /\ HardLimit \in Nat
    /\ FloodThreshold < HardLimit

\* Mutant of AfterSuccess: the counter is not checked.
AfterSuccessUnchecked(failed) == failed - 1

\* A success takes one failure back.
AfterSuccess(failed) == IF failed > 0 THEN failed - 1 ELSE 0

\* The counter after one more failure.  One that comes late halves it.
AfterFailure(failed, quick) == IF quick THEN failed + 1 ELSE (failed + 1) \div 2

\* One more failure is a flood: the counter has passed the threshold quickly.
Flood(failed, quick) == quick /\ failed + 1 > FloodThreshold

\* Mutant of Panics: the second limit alone.
PanicsLate(failed, quick) == AfterFailure(failed, quick) >= HardLimit

\* One more failure makes report_signature_result call panic_wipe.
Panics(failed, quick) == Flood(failed, quick) \/ AfterFailure(failed, quick) >= HardLimit
====
