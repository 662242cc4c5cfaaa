-------------------------------- MODULE Parts --------------------------------
(***************************************************************************)
(* Four parts of a router that share no variable and need no fairness: a   *)
(* UDP endpoint, what comes in over the links, the statistics, and the     *)
(* loading of a configuration.  A behaviour is one of a single part; the   *)
(* others stay in an initial state.                                        *)
(***************************************************************************)
EXTENDS UdpEndpoint

VARIABLE part

udpVars == vars

-----------------------------------------------------------------------------
(* The links.                                                              *)

CONSTANTS
  Frame, Version, FalseStart, Refused, BufferMax, Link, Datagrams, Carries, Sender, MsgId,
  MsgTarget, Filters, ReadSize, MaxFrames, MaxLapses

VARIABLES wire, buffer, pending, recent, noted, published, total, damaged, read, slices,
          lapsed

inVars == <<wire, buffer, pending, recent, noted, published, total, damaged, read, slices,
            lapsed>>

In == INSTANCE Ingress WITH Target <- MsgTarget, MaxSent <- MaxFrames

-----------------------------------------------------------------------------
(* The statistics.                                                         *)

CONSTANTS StatsRetention, LogInterval, Windows, MaxClock, MaxSamples

VARIABLES clock, reporter, token, samples, last_log_time, report, reported, taken, cleaned

statsVars == <<clock, reporter, token, samples, last_log_time, report, reported, taken,
               cleaned>>

Stats == INSTANCE StatsReporter WITH Retention <- StatsRetention

-----------------------------------------------------------------------------
(* The configuration.                                                      *)

CONSTANTS FileContents, FragmentContents, NumFragments, MaxEdits

VARIABLES asked, file, dir, stage, config, merged, toml_files, edits, seen

confVars == <<asked, file, dir, stage, config, merged, toml_files, edits, seen>>

Conf == INSTANCE Configuration

ASSUME PartsAssumption ==
  In!IngressAssumption /\ Stats!StatsAssumption /\ Conf!ConfigurationAssumption

-----------------------------------------------------------------------------

PartsInit ==
  /\ part \in {"udp", "ingress", "statistics", "configuration"}
  /\ Init /\ (part = "udp" \/ mode = "server")
  /\ In!Init
  /\ Stats!Init /\ (part = "statistics" \/ clock = 0)
  /\ Conf!Init
  /\ part # "configuration" =>
       asked = {} /\ file = Conf!Missing /\ dir = [n \in Conf!Name |-> Conf!Missing]

PartsNext ==
  \/ part = "udp" /\ Next /\ UNCHANGED <<part, inVars, statsVars, confVars>>
  \/ part = "ingress" /\ In!Next /\ UNCHANGED <<part, udpVars, statsVars, confVars>>
  \/ part = "statistics" /\ Stats!Next /\ UNCHANGED <<part, udpVars, inVars, confVars>>
  \/ part = "configuration" /\ Conf!Next /\ UNCHANGED <<part, udpVars, inVars, statsVars>>

PartsSpec ==
  PartsInit /\ [][PartsNext]_<<part, udpVars, inVars, statsVars, confVars>>

-----------------------------------------------------------------------------
(* The properties of the parts, each stated in its module.                 *)

\* The type invariants of all four parts (UdpEndpoint, Ingress, StatsReporter,
\* Configuration).
TypesOK == TypeOK /\ In!TypeOK /\ Stats!TypeOK /\ Conf!TypeOK

\* A stream comes out of the parser as it came in, and frame by frame if it is of one
\* version (Ingress; framing.rs:34-36).
PassesThrough == In!PassesThrough

\* An accepted frame is published once for each time that it is remembered, after its
\* sender was noted (Ingress; endpoint_core.rs:106-149).
AcceptedOnce == In!AcceptedOnce

\* A parser does not wait for more behind a whole frame (Ingress; framing.rs:151-153).
MalformedSkipped == In!MalformedSkipped

\* A report is made of the samples in its windows, and nothing too old is kept but by a
\* clock that was set back (StatsReporter; stats_history.rs:33-80).
AggregatesWindow == Stats!AggregatesWindow

\* The configuration loaded follows the rules of the merge, and no two of its endpoints
\* share a port (Configuration; config.rs:119-176).
LoadsByTheRules == Conf!LoadsByTheRules
=============================================================================
