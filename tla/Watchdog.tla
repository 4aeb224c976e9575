------------------------------ MODULE Watchdog ------------------------------
(***************************************************************************)
(* The boot watchdog (handlers/guards.cpp): a count, kept in a file on the *)
(* SD card, of the boots in a row during which no client authenticated.    *)
(* The file is rewritten by truncating it and writing the new count, the   *)
(* card may refuse, and the power may go at any moment.                    *)
(***************************************************************************)
EXTENDS Naturals

CONSTANT MaxBoots   \* bound on boots

ASSUME WatchdogAssumption == MaxBoots \in Nat

VARIABLES
  file,     \* what atoi reads in the file: 0 if it is missing or empty
  count,    \* g_boot_count
  at,       \* where the agent is
  streak,   \* history: boots in a row, this one included, without a client
  mishaps,  \* history: what has gone wrong with the file
  boots     \* boots so far

vars == <<file, count, at, streak, mishaps, boots>>

Stages == {"off", "counted", "truncated", "running", "cleared", "clearing"}

TypeOK ==
  /\ boots \in 0..MaxBoots
  /\ file \in 0..boots /\ count \in 0..boots /\ streak \in 0..boots
  /\ at \in Stages
  /\ mishaps \subseteq {"card", "power"}

Init ==
  /\ file = 0 /\ count = 0 /\ at = "off" /\ streak = 0
  /\ mishaps = {} /\ boots = 0

-----------------------------------------------------------------------------
CardFails == mishaps' = mishaps \cup {"card"}

\* Mutant of Boot: the boot in progress is not counted.
BootUncounted ==
  /\ at = "off" /\ boots < MaxBoots
  /\ boots' = boots + 1 /\ streak' = streak + 1
  /\ count' = file
  /\ at' = "counted"
  /\ UNCHANGED <<file, mishaps>>

\* WatchdogOnBoot reads the file, if it can, and counts this boot.
Boot ==
  /\ at = "off" /\ boots < MaxBoots
  /\ boots' = boots + 1 /\ streak' = streak + 1
  /\ \/ count' = file + 1 /\ UNCHANGED mishaps
     \/ count' = 1 /\ CardFails
  /\ at' = "counted"
  /\ UNCHANGED file

\* fopen(..., "wb"): the old count is gone, or the file cannot be opened.
OpenToWrite(from, opened) ==
  /\ at = from
  /\ \/ file' = 0 /\ at' = opened /\ UNCHANGED mishaps
     \/ CardFails /\ at' = "running" /\ UNCHANGED file
  /\ UNCHANGED <<count, streak, boots>>

\* fprintf and fclose: the new count is there, unless the card did not take it.
Write(from) ==
  /\ at = from
  /\ at' = "running"
  /\ \/ file' = count /\ UNCHANGED mishaps
     \/ CardFails /\ UNCHANGED file
  /\ UNCHANGED <<count, streak, boots>>

\* Mutant of ClientAuthenticates: the streak ends in memory only.
ClientAuthenticatesUnsaved ==
  /\ at = "running"
  /\ streak' = 0 /\ count' = 0
  /\ UNCHANGED <<file, at, mishaps, boots>>

\* Mutant of ClientAuthenticates: the file is rewritten for every connection.
ClientAuthenticatesAlwaysSaved ==
  /\ at = "running"
  /\ streak' = 0 /\ count' = 0 /\ at' = "cleared"
  /\ UNCHANGED <<file, mishaps, boots>>

\* WatchdogOnConnect, on every successful authentication.
ClientAuthenticates ==
  /\ at = "running"
  /\ streak' = 0
  /\ \/ count = 0 /\ UNCHANGED <<count, at>>
     \/ count # 0 /\ count' = 0 /\ at' = "cleared"
  /\ UNCHANGED <<file, mishaps, boots>>

\* The console goes down.
PowerLoss ==
  /\ at # "off"
  /\ at' = "off" /\ count' = 0
  /\ mishaps' = IF at = "running" THEN mishaps ELSE mishaps \cup {"power"}
  /\ UNCHANGED <<file, streak, boots>>

Running ==
  \/ OpenToWrite("counted", "truncated") \/ Write("truncated")
  \/ ClientAuthenticates \/ OpenToWrite("cleared", "clearing") \/ Write("clearing")

Next == Boot \/ Running \/ PowerLoss

Spec == Init /\ [][Next]_vars

-----------------------------------------------------------------------------
(* Properties.                                                               *)

\* As long as no rewrite of the file went wrong, the count is exact: every boot in
\* a row without a client counts, across restarts, and no other one does.
CountIsExact == at = "running" /\ mishaps = {} => count = streak

\* Whatever the card and the power do, WatchdogStatus calls a console healthy just
\* when a client has authenticated since it booted.
HealthyIfReached == at = "running" => (count = 0 <=> streak = 0)

\* Why CountIsExact holds: what the file says at every step of its rewriting.
CountInv ==
  mishaps = {} =>
    /\ at \in {"counted", "truncated"} => count = streak
    /\ at \in {"cleared", "clearing"} => count = 0 /\ streak = 0
    /\ at = "running" => count = streak /\ file = streak
    /\ at = "off" => file = streak

\* Why HealthyIfReached holds: a count read from the file is never 0 again before
\* a client comes.
ReachedInv ==
  /\ file \in Nat /\ count \in Nat /\ streak \in Nat
  /\ at \in {"counted", "truncated"} => count # 0 /\ streak # 0
  /\ at \in {"cleared", "clearing"} => count = 0 /\ streak = 0
  /\ at = "running" => (count = 0 <=> streak = 0)
=============================================================================
