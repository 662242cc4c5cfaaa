--------------------------- MODULE Configuration ----------------------------
(***************************************************************************)
(* Config::load_merged (config.rs, config/merge.rs, config/validate.rs):   *)
(* a file and then the fragments of a directory, each read by itself while *)
(* somebody may edit the others.  Of the contents, tcp_port stands for the *)
(* fields that are an Option, general for the others, and an endpoint has  *)
(* a protocol, a port, and is otherwise sound or not.                      *)
(***************************************************************************)
EXTENDS Naturals, Sequences, FiniteSets, SequencesExt

CONSTANTS
  FileContents,      \* what the file may contain
  FragmentContents,  \* and the fragments
  NumFragments,      \* the names that fragments may have, in alphabetical order
  MaxEdits           \* bound: edits while a configuration is loaded

\* What may be read, field by field.
Port == 0 .. 65535
Endpoint == [proto : {"tcp", "udp", "serial"}, port : Port, sound : BOOLEAN]
Yes == {TRUE}
Contents ==
  [toml : Yes, there : Yes,
   tcp_port : Port,                           \* 0: not set
   general  : {"default", "set", "bad"},
   endpoint : Seq(Endpoint)]

ConfigurationAssumption ==
  /\ FileContents \subseteq Contents /\ FragmentContents \subseteq Contents
  /\ NumFragments \in Nat /\ MaxEdits \in Nat

Name == 1 .. NumFragments

\* Not there, or not TOML.
Missing == [toml |-> FALSE, there |-> FALSE]
Garbage == [toml |-> FALSE, there |-> TRUE]

VARIABLES
  asked,     \* which of "file" and "dir" are given on the command line
  file, dir, \* what is on the disk
  stage,     \* "file", "dir", "fragments", "loaded" or "failed"
  config,    \* what has been loaded from the file, then the result
  merged,    \* what has been loaded from the directory
  toml_files,\* the names still to be read
  edits,
  seen       \* history: the contents read, with their names (0: the file)

vars == <<asked, file, dir, stage, config, merged, toml_files, edits, seen>>

-----------------------------------------------------------------------------
(* Merge and validation.                                                   *)

Default == [tcp_port |-> 0, general |-> "default", endpoint |-> <<>>]

\* Mutant of Merge: an option that the overlay leaves open is reset.
MergeAll(c, other) ==
  [tcp_port |-> other.tcp_port,
   general  |-> other.general,
   endpoint |-> c.endpoint \o other.endpoint]

Merge(c, other) ==
  [tcp_port |-> IF other.tcp_port # 0 THEN other.tcp_port ELSE c.tcp_port,
   general  |-> other.general,
   endpoint |-> c.endpoint \o other.endpoint]

\* validate_endpoint and its set of ports: TCP and UDP ports are apart, a serial
\* endpoint has none, and tcp_port is taken first.
SamePort(e, f) == e.proto # "serial" /\ e.proto = f.proto /\ e.port = f.port

Validate(c) ==
  /\ \A i \in DOMAIN c.endpoint :
       /\ c.endpoint[i].sound
       /\ ~SamePort(c.endpoint[i], [proto |-> "tcp", port |-> c.tcp_port])
       /\ \A j \in 1 .. i - 1 : ~SamePort(c.endpoint[i], c.endpoint[j])
  /\ c.general # "bad"

Fields(content) == [f \in DOMAIN Default |-> content[f]]

-----------------------------------------------------------------------------

Init ==
  /\ asked \in SUBSET {"file", "dir"}
  /\ file \in FileContents \cup {Missing, Garbage}
  /\ dir \in [Name -> FragmentContents \cup {Missing, Garbage}]
  /\ stage = "file"
  /\ config = Default /\ merged = Default
  /\ toml_files = <<>> /\ edits = 0 /\ seen = <<>>

Edit ==
  /\ stage \notin {"loaded", "failed"}
  /\ edits < MaxEdits /\ edits' = edits + 1
  /\ \/ file' \in FileContents \cup {Missing} /\ UNCHANGED dir
     \/ /\ \E n \in Name, content \in FragmentContents \cup {Missing} :
             dir' = [dir EXCEPT ![n] = content]
        /\ UNCHANGED file
  /\ UNCHANGED <<asked, stage, config, merged, toml_files, seen>>

\* load, or the default.
LoadFile ==
  /\ stage = "file"
  /\ IF "file" \notin asked
       THEN stage' = "dir" /\ UNCHANGED <<config, seen>>
       ELSE IF file.toml /\ Validate(Fields(file))
         THEN /\ stage' = "dir"
              /\ config' = Fields(file)
              /\ seen' = Append(seen, <<0, file>>)
         ELSE stage' = "failed" /\ UNCHANGED <<config, seen>>
  /\ UNCHANGED <<asked, file, dir, merged, toml_files, edits>>

\* Mutant of Sorted: in the order of the directory.
AsListed(names) == names
Sorted(names) ==
  CHOOSE s \in SetToSeqs(ToSet(names)) : \A i, j \in DOMAIN s : i < j => s[i] < s[j]

\* The names that read_dir yields, in no order; or the directory cannot be read.
ListDir ==
  /\ stage = "dir"
  /\ \/ /\ "dir" \notin asked
        /\ stage' = "loaded" /\ UNCHANGED toml_files
     \/ /\ "dir" \in asked
        /\ \E names \in SetToSeqs({n \in Name : dir[n].there}) : toml_files' = Sorted(names)
        /\ stage' = "fragments"
     \/ /\ "dir" \in asked
        /\ stage' = "failed" /\ UNCHANGED toml_files
  /\ UNCHANGED <<asked, file, dir, config, merged, edits, seen>>

\* A fragment that has gone since is an error.
LoadFragment ==
  /\ stage = "fragments" /\ toml_files # <<>>
  /\ LET n == Head(toml_files)
     IN IF dir[n].toml
          THEN /\ merged' = Merge(merged, Fields(dir[n]))
               /\ seen' = Append(seen, <<n, dir[n]>>)
               /\ UNCHANGED stage
          ELSE stage' = "failed" /\ UNCHANGED <<merged, seen>>
  /\ toml_files' = Tail(toml_files)
  /\ UNCHANGED <<asked, file, dir, config, edits>>

\* Mutant of Finish: the whole is not validated again.
FinishUnchecked ==
  /\ stage = "fragments" /\ toml_files = <<>>
  /\ config' = Merge(config, merged)
  /\ stage' = IF Validate(merged) THEN "loaded" ELSE "failed"
  /\ UNCHANGED <<asked, file, dir, merged, toml_files, edits, seen>>

\* The directory must be valid by itself, and the whole.
Finish ==
  /\ stage = "fragments" /\ toml_files = <<>>
  /\ config' = Merge(config, merged)
  /\ stage' = IF Validate(merged) /\ Validate(config') THEN "loaded" ELSE "failed"
  /\ UNCHANGED <<asked, file, dir, merged, toml_files, edits, seen>>

Next == Edit \/ LoadFile \/ ListDir \/ LoadFragment \/ Finish

Spec == Init /\ [][Next]_vars

-----------------------------------------------------------------------------

\* The variables have their types.
TypeOK ==
  /\ asked \subseteq {"file", "dir"}
  /\ stage \in {"file", "dir", "fragments", "loaded", "failed"}
  /\ DOMAIN config = DOMAIN Default /\ DOMAIN merged = DOMAIN Default
  /\ toml_files \in Seq(Name) /\ edits \in 0 .. MaxEdits
  /\ \A i \in DOMAIN seen : seen[i][1] \in {0} \cup Name /\ seen[i][2].toml

LastWith(s, P(_)) ==
  LET found == {i \in DOMAIN s : P(s[i])}
  IN IF found = {} THEN Default ELSE s[CHOOSE i \in found : \A j \in found : j <= i]

\* What is loaded follows the rules of load_merged and load_dir ("sorted alphabetically",
\* "later files override earlier files", "directory wins", "endpoints accumulate":
\* config.rs:119-127, 172-176; merge.rs:3-6) for the contents as they were read, whatever
\* was edited in between; and no two endpoints of it need the same port.
LoadsByTheRules ==
  stage = "loaded" =>
    LET contents == [i \in DOMAIN seen |-> seen[i][2]]
        fragments == {i \in DOMAIN seen : seen[i][1] # 0}
        endpoints == FlattenSeq([i \in DOMAIN seen |-> contents[i].endpoint])
    IN /\ \A i, j \in fragments : i < j => seen[i][1] < seen[j][1]
       /\ config.tcp_port = LastWith(contents, LAMBDA c : c.tcp_port # 0).tcp_port
       /\ config.general =
            IF "dir" \in asked /\ fragments = {} THEN Default.general
            ELSE LastWith(contents, LAMBDA c : TRUE).general
       /\ config.endpoint = endpoints
       /\ \A proto \in {"tcp", "udp"} :
            LET ports == [i \in {j \in DOMAIN endpoints : endpoints[j].proto = proto}
                            |-> endpoints[i].port]
            IN /\ IsInjective(ports)
               /\ proto = "tcp" => config.tcp_port \notin {ports[i] : i \in DOMAIN ports}
=============================================================================
