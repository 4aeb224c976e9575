------------------------------- MODULE Macro -------------------------------
(***************************************************************************)
(* A macro from the controller and back: record_input (RecordInput of      *)
(* handlers/events.cpp) samples the pad every 50 ms, and the server's      *)
(* send_input_sequence (tools/core.py) plays the recording. Time is in     *)
(* samples.                                                                *)
(***************************************************************************)
EXTENDS Naturals, Sequences

CONSTANTS Buttons,     \* combinations of buttons the player may hold
          MaxSamples   \* bound: duration_ms / 50 ms

VARIABLES prev,      \* the buttons of the last sample that differed; {} = none
          idle_ms, elapsed,
          steps,     \* the recording: [buttons, wait_ms] each
          gaps,      \* history: how long the pad had been quiet before each press
          played,    \* steps the server has sent
          paused     \* for each of them, the pause between it and the one before

vars == <<prev, idle_ms, elapsed, steps, gaps, played, paused>>

Init ==
    /\ prev = {} /\ idle_ms = 0 /\ elapsed = 0
    /\ steps = <<>> /\ gaps = <<>>
    /\ played = 0 /\ paused = <<0>>

Recording == elapsed < MaxSamples /\ played = 0

\* A sample equal to the one before, or a pad that cannot be read.
Quiet ==
    /\ Recording
    /\ idle_ms' = idle_ms + 1 /\ elapsed' = elapsed + 1
    /\ UNCHANGED <<prev, steps, gaps, played, paused>>

\* Only transitions to a pressed state become steps.
Press(b) ==
    /\ Recording /\ b # prev
    /\ steps' = Append(steps, [buttons |-> b, wait_ms |-> idle_ms])
    /\ gaps' = Append(gaps, idle_ms)
    /\ idle_ms' = 0 /\ elapsed' = elapsed + 1 /\ prev' = b
    /\ UNCHANGED <<played, paused>>

\* The sample of a release does not count as idle.
ReleaseAll ==
    /\ Recording /\ prev # {}
    /\ prev' = {} /\ elapsed' = elapsed + 1
    /\ UNCHANGED <<idle_ms, steps, gaps, played, paused>>

\* send_input_sequence: input, then the pause of the step just sent.
SendInputSequence ==
    /\ elapsed = MaxSamples /\ played < Len(steps)
    /\ played' = played + 1
    /\ paused' = Append(paused, steps[played'].wait_ms)
    /\ UNCHANGED <<prev, idle_ms, elapsed, steps, gaps>>

Next == Quiet \/ ReleaseAll \/ SendInputSequence \/ \E b \in Buttons : Press(b)

Spec == Init /\ [][Next]_vars

\* record_input promises that a recording "can be replayed with no editing, and
\* the gaps between presses are preserved as wait_ms" (core.py): the pause in
\* front of every press but the first is the recorded one.
ReplayKeepsGaps == \A i \in 2..played : paused[i] = gaps[i]
=============================================================================
