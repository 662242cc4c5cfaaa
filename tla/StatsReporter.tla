--------------------------- MODULE StatsReporter ----------------------------
(***************************************************************************)
(* The statistics reporter (orchestration/stats_reporter.rs) and its       *)
(* history (orchestration/stats_history.rs).  Samples carry the time of    *)
(* the wall clock, which anyone may set forward or back; a report          *)
(* aggregates the samples of three windows that end with the latest one.   *)
(* Of a sample only its time matters here.                                 *)
(***************************************************************************)
EXTENDS Naturals, Sequences

CONSTANTS
  Retention,    \* stats_retention_secs
  LogInterval,  \* stats_log_interval_secs
  Windows,      \* the windows, in seconds
  MaxClock,     \* bound: the times that the wall clock shows
  MaxSamples    \* bound: how many samples are taken

StatsAssumption ==
  /\ Retention \in Nat /\ LogInterval \in Nat /\ Windows \subseteq Nat
  /\ MaxClock \in Nat /\ MaxSamples \in Nat

VARIABLES
  clock,          \* the wall clock
  reporter,       \* "running" or "over"
  token,          \* is the session's token cancelled?
  samples,        \* the history: the times of the samples, oldest first
  last_log_time,
  report,         \* the last report: [window -> index of its first sample]
  reported,       \* history: the samples that the last report was made from
  taken,          \* history: the times of all samples
  cleaned         \* history: how many of them have been removed

vars == <<clock, reporter, token, samples, last_log_time, report, reported, taken, cleaned>>

\* saturating_sub
Minus(a, b) == IF a > b THEN a - b ELSE 0

Latest(s) == s[Len(s)]

-----------------------------------------------------------------------------

\* Mutant of CleanUp: one sample at most is removed.
CleanUpOne(s) ==
  IF s[1] < Minus(Latest(s), Retention) THEN Tail(s) ELSE s

\* From the front, as long as it is too old for the latest.
CleanUp(s) ==
  LET cutoff == Minus(Latest(s), Retention)
      Kept == {i \in DOMAIN s : s[i] >= cutoff}
      first == CHOOSE i \in Kept : \A j \in Kept : i <= j
  IN SubSeq(s, first, Len(s))

\* Mutant of StartIndex: samples at the cutoff are left out.
StartBehind(s, window) ==
  LET Old(i) == s[i] <= Minus(Latest(s), window)
  IN {i \in 1 .. Len(s) + 1 : /\ i > 1 => Old(i - 1)
                              /\ i <= Len(s) => ~Old(i)}

\* partition_point: a place with an old sample before it and none after it.  There is
\* just one when times increase; otherwise which one depends on the search.
StartIndex(s, window) ==
  LET Old(i) == s[i] < Minus(Latest(s), window)
  IN {i \in 1 .. Len(s) + 1 : /\ i > 1 => Old(i - 1)
                              /\ i <= Len(s) => ~Old(i)}

\* aggregate, for each window; None, here 0, if there is nothing in it.
Reports(s) ==
  {r \in [Windows -> 0 .. Len(s)] :
     \A w \in Windows :
       \/ r[w] \in StartIndex(s, w)
       \/ r[w] = 0 /\ Len(s) + 1 \in StartIndex(s, w)}

Init ==
  /\ clock \in 0 .. MaxClock
  /\ reporter = "running" /\ token = FALSE
  /\ samples = <<>> /\ last_log_time = 0
  /\ report = [w \in {} |-> 0] /\ reported = <<>>
  /\ taken = <<>> /\ cleaned = 0

\* Time passes, or the clock is set.
SetClock ==
  /\ \E t \in 0 .. MaxClock : t # clock /\ clock' = t
  /\ UNCHANGED <<reporter, token, samples, last_log_time, report, reported, taken, cleaned>>

\* sleep ends, even if the token is cancelled by then.
Sample ==
  /\ reporter = "running" /\ Len(taken) < MaxSamples
  /\ taken' = Append(taken, clock)
  /\ samples' = CleanUp(Append(samples, clock))
  /\ cleaned' = cleaned + Len(samples) + 1 - Len(samples')
  /\ IF Minus(clock, last_log_time) >= LogInterval
       THEN /\ report' \in Reports(samples')
            /\ reported' = samples'
            /\ last_log_time' = clock
       ELSE UNCHANGED <<report, reported, last_log_time>>
  /\ UNCHANGED <<clock, reporter, token>>

Cancel ==
  /\ ~token /\ token' = TRUE
  /\ UNCHANGED <<clock, reporter, samples, last_log_time, report, reported, taken, cleaned>>

SeeCancelled ==
  /\ reporter = "running" /\ token
  /\ reporter' = "over"
  /\ UNCHANGED <<clock, token, samples, last_log_time, report, reported, taken, cleaned>>

Next == SetClock \/ Sample \/ Cancel \/ SeeCancelled

Spec == Init /\ [][Next]_vars

-----------------------------------------------------------------------------

\* The variables have their types, and the history is what is left of the samples
\* taken, without a gap.
TypeOK ==
  /\ clock \in 0 .. MaxClock /\ reporter \in {"running", "over"} /\ token \in BOOLEAN
  /\ samples = SubSeq(taken, cleaned + 1, Len(taken))
  /\ last_log_time \in 0 .. MaxClock
  /\ report \in [DOMAIN report -> 0 .. Len(reported)]

\* A report always has the latest sample in each window, whatever the clock has done
\* (stats_history.rs:67-79); and as far as the times in the history do not decrease, a
\* window holds the samples that are in it, several of the same second included, and no
\* other ("timestamps are strictly monotonically increasing", stats_history.rs:60-61).
\* What is older than the retention stays only behind a sample that is not
\* (stats_history.rs:43-53): a clock that is never set back leaves nothing too old.
AggregatesWindow ==
  /\ \A w \in DOMAIN report :
       LET In(i) == Latest(reported) <= reported[i] + w
       IN /\ report[w] \in DOMAIN reported
          /\ (\A i, j \in DOMAIN reported : i < j => reported[i] <= reported[j]) =>
               \A i \in DOMAIN reported : In(i) <=> i >= report[w]
  /\ LET TooOld(i) == samples[i] + Retention < Latest(samples)
     IN \A i \in DOMAIN samples : TooOld(i) => \E j \in 1 .. i - 1 : ~TooOld(j)
=============================================================================
