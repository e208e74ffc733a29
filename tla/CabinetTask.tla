------------------------------ MODULE CabinetTask ------------------------------
(***************************************************************************)
(* The scripted cabinet task of the demo gripper: ten phases, each ended   *)
(* by a gate (decision/cabinet.py), the grip latch read from the encoders  *)
(* and Mechanism (decision/opening.py), which finds by pushing which way   *)
(* the held thing gives and decides that it is open.  runs/cabinet.py runs *)
(* one frame as look, advance, decide and drive.                           *)
(*                                                                         *)
(* The body is the environment: how the fingers stand, whether the hand    *)
(* has moved, has arrived or is clear is chosen in every frame.  Left out: *)
(* the reaches (travel_to), poses and the seconds of the run.              *)
(***************************************************************************)
EXTENDS Integers

CONSTANTS
    Barred,   \* _BARRED_AFTER, in frames
    Casts     \* len(_CAST_DEG)

ASSUME CabinetAssumption == Barred \in Nat \ {0} /\ Casts \in Nat \ {0}

VARIABLES
    frame,     \* which part of the frame comes next
    phase,     \* the index into PHASES
    squeeze_n, \* the grip force commanded in the last frame
    latch,     \* the grip latch: on, and for how many frames settled
    holds,     \* Scene.holding() of this frame
    mechanism, \* still_for, casting and whether opened_m >= _STARTED_M
    withdrawn, \* committed["withdrawn"]
    tried,     \* (history) the directions pushed since the hand last moved
    quiet      \* (history) observations since the hand last moved

cabinetVars == <<frame, phase, squeeze_n, latch, holds, mechanism, withdrawn, tried, quiet>>

Phases == <<"to_handle", "grip_handle", "pull_open", "let_go", "back_off",
            "to_contents", "grip_contents", "withdraw", "carry_to_bench", "set_down">>
PhaseName == Phases[phase]

\* Direction 0 is the observed heading, c the c-th of the cast.
Direction == 0..Casts

CabinetTypeOK ==
    /\ frame \in {"look", "advance", "decide"}
    /\ phase \in 1..10
    /\ squeeze_n \in {"none", "handle", "carry"}
    /\ latch \in [on : BOOLEAN, frames : 0..4]
    /\ holds \in BOOLEAN /\ withdrawn \in BOOLEAN
    /\ mechanism \in [still : 0..Barred, casting : 0..(2 * Casts - 1), started : BOOLEAN]
    /\ tried \subseteq Direction
    /\ quiet \in 0..(Casts * Barred)

CabinetInit ==
    /\ frame = "look" /\ phase = 1 /\ squeeze_n = "none"
    /\ latch = [on |-> FALSE, frames |-> 0]
    /\ holds = FALSE /\ withdrawn = FALSE
    /\ mechanism = [still |-> 0, casting |-> 0, started |-> FALSE]
    /\ tried = {} /\ quiet = 0

-----------------------------------------------------------------------------
(* look_global: what the encoders say of the grip.  A finger is settled    *)
(* when it is squeezed, stopped, and neither fully open nor fully shut.    *)

Squeezed == squeeze_n # "none"

\* The latch closes after four settled frames; it opens when nothing is
\* squeezed, when a finger is shut, or when the fingers are told to go
\* outside where it closed.
Latched(settled, shut, toldToOpen) ==
    LET n == IF ~settled THEN 0 ELSE IF latch.frames < 4 THEN latch.frames + 1 ELSE 4
        on == (latch.on \/ n = 4) /\ ~toldToOpen /\ ~shut /\ Squeezed
    IN  [on |-> on, frames |-> n]

Look ==
    /\ frame = "look"
    /\ \E left, right, shut, toldToOpen \in BOOLEAN :
           /\ (left \/ right) => Squeezed
           /\ shut => ~(left /\ right)
           /\ latch' = Latched(left /\ right, shut, toldToOpen)
           /\ holds' = (Squeezed /\ (left \/ latch'.on) /\ (right \/ latch'.on))
    /\ frame' = "advance"
    /\ UNCHANGED <<phase, squeeze_n, mechanism, withdrawn, tried, quiet>>

-----------------------------------------------------------------------------
(* advance: the gate of the phase.  No phase is ever gone back to.         *)

\* (mutant) only the number of casts is looked at
OpenedUnmoved == mechanism.casting >= Casts
Opened == mechanism.started /\ mechanism.casting >= Casts

\* What the gate may say: some ask the body only, which may say either.
Gate ==
    CASE PhaseName \in {"to_handle", "let_go", "to_contents", "withdraw"} -> BOOLEAN
      [] PhaseName \in {"grip_handle", "grip_contents"} -> {holds}
      [] PhaseName = "pull_open" -> {Opened}
      [] PhaseName = "back_off" -> {FALSE, withdrawn}
      [] PhaseName = "carry_to_bench" -> {FALSE, holds}
      [] PhaseName = "set_down" -> {FALSE}

Advance ==
    /\ frame = "advance"
    /\ \E done \in Gate : phase' = IF done THEN phase + 1 ELSE phase
    /\ frame' = "decide"
    /\ UNCHANGED <<squeeze_n, latch, holds, mechanism, withdrawn, tried, quiet>>

-----------------------------------------------------------------------------
(* decide: the command of the phase, driven before the next look.          *)

Command(force) == frame = "decide" /\ frame' = "look" /\ squeeze_n' = force
                  /\ UNCHANGED <<phase, latch, holds>>
Passive == UNCHANGED <<mechanism, withdrawn, tried, quiet>>

Reach == PhaseName \in {"to_handle", "to_contents"} /\ Command("none") /\ Passive
GripHandle == PhaseName = "grip_handle" /\ Command("handle") /\ Passive
LostHandle == PhaseName = "pull_open" /\ ~holds /\ Command("handle") /\ Passive

\* observe: a displacement restarts the search, its absence counts a frame,
\* and a frame that extends the swept path does neither.
Moved(m) == {[still |-> 0, casting |-> 0, started |-> s] : s \in {m.started, TRUE}}
Still(m) == [m EXCEPT !.still = IF @ < Barred THEN @ + 1 ELSE Barred]
IsBarred(m) == m.still >= Barred

\* (mutant) the count of still frames is kept
CastWiderKeeping(m) ==
    IF ~IsBarred(m) THEN m
    ELSE [m EXCEPT !.casting = IF @ + 1 < 2 * Casts THEN @ + 1 ELSE Casts]
\* casting grows without bound in the code; here it keeps its remainder.
CastWider(m) ==
    IF ~IsBarred(m) THEN m
    ELSE [m EXCEPT !.casting = IF @ + 1 < 2 * Casts THEN @ + 1 ELSE Casts, !.still = 0]
Aim(m) == IF IsBarred(m) THEN 1 + (m.casting % Casts) ELSE 0

PullAlong(m) == mechanism' = CastWider(m)
More(n) == IF n < Casts * Barred THEN n + 1 ELSE n
Pull ==
    /\ PhaseName = "pull_open" /\ holds /\ Command("handle")
    /\ \/ /\ \E m \in Moved(mechanism) : PullAlong(m)
          /\ tried' = {Aim(mechanism')} /\ quiet' = 0
       \/ /\ PullAlong(Still(mechanism))
          /\ tried' = tried \cup {Aim(mechanism')} /\ quiet' = More(quiet)
       \/ /\ PullAlong(mechanism)
          /\ tried' = tried \cup {Aim(mechanism')} /\ UNCHANGED quiet
    /\ UNCHANGED withdrawn

\* (mutant) the hand opens but the force stays on
LetGoSqueezing == PhaseName = "let_go" /\ Command("handle") /\ Passive
LetGo == PhaseName = "let_go" /\ Command("none") /\ Passive
BackOff ==
    /\ PhaseName = "back_off" /\ Command("none")
    /\ withdrawn' \in {withdrawn, TRUE}
    /\ UNCHANGED <<mechanism, tried, quiet>>
Carry ==      \* refused in place when nothing is held, the force stays on
    /\ PhaseName \in {"grip_contents", "withdraw", "carry_to_bench"}
    /\ Command("carry") /\ Passive
SetDown == PhaseName = "set_down" /\ \E force \in {"none", "carry"} : Command(force) /\ Passive

CabinetNext ==
    \/ Look \/ Advance
    \/ Reach \/ GripHandle \/ LostHandle \/ Pull
    \/ LetGo \/ BackOff \/ Carry \/ SetDown

CabinetSpec == CabinetInit /\ [][CabinetNext]_cabinetVars

-----------------------------------------------------------------------------

\* The grip on the handle is never taken for a grip on the contents: once the
\* hand has let go, the latch is off until something is squeezed again
\* (_grip_state, decide).
HandleForgotten ==
    frame # "look" /\ PhaseName \in {"back_off", "to_contents"} => ~latch.on /\ ~holds

\* The hand lets go only of a thing that has moved and then, for as long as
\* every cast lasts, has not moved again (Mechanism.opened).
OpenHasStopped ==
    phase > 3 => mechanism.started /\ quiet = Casts * Barred

\* "It is open when it has moved, and then every direction in the cast has
\* been tried without it moving again" (Mechanism.opened): whenever the gate
\* says open, every direction of the cast has been pushed along since.
CastTried == Opened => 1..Casts \subseteq tried
=============================================================================
