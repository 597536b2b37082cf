------------------------------ MODULE MCSchedule ------------------------------
(* Small instances of Schedule for TLC. *)
EXTENDS Schedule

CONSTANTS s1, s2

Preset(n) == [custom |-> FALSE, number |-> n]
Custom(n) == [custom |-> TRUE, number |-> n]

\* A preset and a custom interval, one too short, and one no date can express.
MCIntervalForms == {[interval |-> c] : c \in {Preset(3), Custom(4), Custom(1), Custom(9)}}

\* One table off and one day for the other, a retention no date can express
\* for the second table, and a number left out.
MCRetentionForms ==
  {[observations |-> Custom(1), events |-> Preset(0)],
   [observations |-> Preset(0), events |-> Custom(9)],
   [observations |-> Custom(NoValue), events |-> Preset(0)]}

\* What moves beside the cleanup, to keep the product small: saves of intervals
\* and of a retention, with events only; or rows of both tables, with one save
\* of a retention.
VARIABLE part
Within == IF part = "saves" THEN table["observations"] = {}
          ELSE \A r \in Savers : form[r] \notin IntervalForms

\* Older rows have lower ids; the newest row may be old.
MCInit ==
  /\ Init /\ clock = 1
  /\ \A t \in Tables : \A x, y \in table[t] : x.id < y.id => x.at <= y.at
  /\ \A t \in Tables : \A x \in table[t] : x.id = 2 => \E y \in table[t] : y.id = 1
  /\ part \in {"saves", "rows"} /\ Within

MCNext == UNCHANGED part /\ Next /\ Within'

MCSpec == MCInit /\ [][MCNext]_<<vars, part>> /\ WF_vars(CleanupStep)

=============================================================================
