---------------------------- MODULE PsgEnvelope ----------------------------
(***************************************************************************)
(* The envelope generator of mrbgems/picoruby-psg (ports/common/psg.c):    *)
(* register writes and update_envelope, which PSG_calc_sample calls once a *)
(* sample for all tracks.  A shape is the set of bits of R13 that are set. *)
(***************************************************************************)
EXTENDS Integers, FiniteSetsExt

CONSTANTS
    Tracks,         \* 0..2
    Top,            \* the highest level, 15
    Shapes,         \* the values of R13 that scripts write
    Periods,        \* the values of R11 and R12
    MaxWrites       \* bound: register writes

AllShapes == SUBSET {"continue", "attack", "alternate", "hold"}

ASSUME TracksAssumption == Tracks \subseteq Nat /\ Tracks # {}
ASSUME RegistersAssumption ==
    Top \in Nat \ {0} /\ Shapes \subseteq AllShapes /\ Periods \subseteq Nat

VARIABLES
    env,       \* of each track: envelope bit of its volume, legato, counter,
               \* level, direction, running, and steps taken since its reset
    shape,     \* env_continue, env_attack, env_alternate, env_hold
    period,    \* envelope_period
    writes     \* register writes so far

envelopeVars == <<env, shape, period, writes>>

(* reset_psg: memset to zero.                                              *)
EnvelopeInit ==
    /\ env = [tr \in Tracks |-> [on |-> FALSE, legato |-> FALSE, cnt |-> 0, level |-> 0,
                                 up |-> FALSE, running |-> FALSE, steps |-> 0]]
    /\ shape = {} /\ period = 0 /\ writes = 0

----------------------------------------------------------------------------
(* Register writes.                                                        *)

StartLevel(s) == IF "attack" \in s THEN 0 ELSE Top

RESET_ENVELOPE(e, s) ==
    [e EXCEPT !.up = "attack" \in s, !.level = StartLevel(s),
              !.running = TRUE, !.cnt = 0, !.steps = 0]

Write == writes < MaxWrites /\ writes' = writes + 1

WriteShape ==
    /\ Write
    /\ \E s \in Shapes :
          shape' = s /\ env' = [tr \in Tracks |-> RESET_ENVELOPE(env[tr], s)]
    /\ UNCHANGED period

WritePeriod ==
    /\ Write
    /\ period' \in Periods
    /\ UNCHANGED <<env, shape>>

(* R8 to R10: bit 4.                                                       *)
WriteVolume ==
    /\ Write
    /\ \E tr \in Tracks, on \in BOOLEAN : env' = [env EXCEPT ![tr].on = on]
    /\ UNCHANGED <<shape, period>>

(* R1, R3, R5: a new note restarts the envelope, unless legato.            *)
WriteTone ==
    /\ Write
    /\ \E tr \in Tracks :
          /\ env[tr].on /\ ~env[tr].legato
          /\ env' = [env EXCEPT ![tr] = RESET_ENVELOPE(@, shape)]
    /\ UNCHANGED <<shape, period>>

WriteLegato ==
    /\ Write
    /\ \E tr \in Tracks, legato \in BOOLEAN : env' = [env EXCEPT ![tr].legato = legato]
    /\ UNCHANGED <<shape, period>>

----------------------------------------------------------------------------
(* update_envelope.                                                        *)

Skipped(e) == ~e.on \/ ~e.running \/ period = 0
Counting(e) == e.cnt + 1 < period
AtEnd(e) == e.level = IF e.up THEN Top ELSE 0
OneShot == "continue" \notin shape \/ "hold" \in shape

(* Mutant: the envelope keeps running at its end.                          *)
StoppedNever(e) == [e EXCEPT !.cnt = 0]
Stopped(e) == [e EXCEPT !.cnt = 0, !.running = FALSE, !.steps = @ + 1]

Moved(e) == [e EXCEPT !.level = IF e.up THEN @ + 1 ELSE @ - 1]

(* Mutant: the direction is not reversed.                                  *)
TurnedNever(e) == "attack" \in shape
(* The direction of the next cycle.                                        *)
Turned(e) == IF "alternate" \in shape THEN ~e.up ELSE "attack" \in shape

Restarted(e) ==
    [e EXCEPT !.cnt = 0, !.up = Turned(e), !.level = IF Turned(e) THEN 0 ELSE Top,
              !.steps = @ + 1]

Updated(e) ==
    CASE Skipped(e) -> e
      [] ~Skipped(e) /\ Counting(e) -> [e EXCEPT !.cnt = @ + 1]
      [] ~Skipped(e) /\ ~Counting(e) /\ ~AtEnd(e) ->
            [Moved(e) EXCEPT !.cnt = 0, !.steps = @ + 1]
      [] OTHER -> IF OneShot THEN Stopped(e) ELSE Restarted(e)

(* The branches that return, and leave out the tracks that follow.         *)
Returns(e) == ~Skipped(e) /\ ~Counting(e) /\ (~AtEnd(e) \/ OneShot)
Reached(tr) == \A t \in Tracks : t < tr => ~Returns(env[t])

update_envelope ==
    /\ env' = [tr \in Tracks |-> IF Reached(tr) THEN Updated(env[tr]) ELSE env[tr]]
    /\ UNCHANGED <<shape, period, writes>>

EnvelopeNext ==
    \/ WriteShape \/ WritePeriod \/ WriteVolume \/ WriteTone \/ WriteLegato
    \/ update_envelope

(* Samples are rendered for ever.                                          *)
EnvelopeSpec ==
    EnvelopeInit /\ [][EnvelopeNext]_envelopeVars /\ WF_envelopeVars(update_envelope)

(* A repeating envelope counts steps without end: only the place in the    *)
(* cycle matters.                                                          *)
Cycle == 2 * (Top + 1)
SoundView ==
    <<[tr \in Tracks |-> [env[tr] EXCEPT !.steps = IF OneShot THEN Min({@, Top + 1})
                                                   ELSE @ % Cycle]],
      shape, period, writes>>

----------------------------------------------------------------------------
(* Properties.                                                             *)

(* The waveforms drawn in psg.h above R13: one ramp, then a constant level *)
(* or the ramp again, or the ramp backwards.                               *)
Ramp(up, k) == IF up THEN k ELSE Top - k
Attack == "attack" \in shape
Final ==
    CASE "continue" \notin shape -> 0
      [] OTHER -> IF Attack # ("alternate" \in shape) THEN Top ELSE 0
Drawn(n) ==
    LET cycle == n \div (Top + 1)
        k == n % (Top + 1)
        back == "alternate" \in shape /\ cycle % 2 = 1
    IN  IF OneShot /\ n > Top THEN Final
        ELSE Ramp(Attack # back, k)

(* Whatever registers are written in between, and however many tracks use  *)
(* the envelope, each follows, step by step, the waveform that is drawn    *)
(* for its shape (psg.h:93-113).  The legend above the drawing             *)
(* (psg.h:91-92) gives each bit the opposite meaning and disagrees with    *)
(* both.  When a step comes, and that counts are lost to the early return, *)
(* is not its subject.                                                     *)
FollowsDrawing == \A tr \in Tracks : env[tr].steps > 0 => env[tr].level = Drawn(env[tr].steps)

(* An envelope that is not to repeat ends on every track, although a track *)
(* that moves keeps the later ones from being counted in that sample.      *)
OneShotEnds ==
    \A tr \in Tracks :
        (env[tr].on /\ OneShot /\ period # 0)
            ~> (~env[tr].running \/ ~env[tr].on \/ ~OneShot \/ period = 0)
=============================================================================
