-------------------------------- MODULE Startup --------------------------------
(***************************************************************************)
(* From the configuration file and the command line to a running program:   *)
(* check_opt and read_config (config.rs) and main up to the start of the    *)
(* threads (main.rs).  It decides the constants that the other modules are  *)
(* given, and the packets (Icmp) of the program that was started.           *)
(***************************************************************************)
EXTENDS Icmp, FiniteSets, FiniteSetsExt

CONSTANTS
  MAXSZ,        \* largest packet; 1024
  Hosts,        \* host names a target line may have
  HostLength,   \* their lengths
  Address,      \* what they resolve to; Unresolved if they do not
  Displays,     \* lengths of the display names; 0: none
  FileOptions,  \* the options <<letter, argument>> an option line may have
  CommandLines, \* the sets of options that may be on the command line
  Pids,         \* process numbers
  MaxLines      \* bound: lines of the file

T_TTL == 24
Unresolved == "unresolved"

Flags == {"b", "n", "r", "a", "x", "t", "S"}
Known == Flags \cup {"m", "p", "s", "N", "c", "o"}

\* No packet is longer than the IP protocol allows.
ASSUME SizeAssumption == MAXSZ \in Nat /\ MAXSZ < 65536
ASSUME HostsAssumption == HostLength \in [Hosts -> Nat \ {0}] /\ Displays \subseteq Nat
\* An argument is the number that atoi makes of it.  A path, the empty one too,
\* and a glyph are numbers from 1; 0 is no glyph.
ASSUME OptionsAssumption == \A o \in FileOptions : o \in STRING \X Int
\* clap refuses an option it does not know, or the same one twice.
ASSUME CommandLineAssumption ==
  \A cmd \in CommandLines :
    /\ cmd \subseteq Known \X Int
    /\ \A o, p \in cmd : o[1] = p[1] => o = p
ASSUME NumbersAssumption == Pids \subseteq Nat /\ MaxLines \in Nat

VARIABLES
  phase,                \* "file", "args", "checks", "log", "sockets", "run", "failed"
  opts,                 \* Options: for every letter its value; a flag is 0 or 1
  targets,              \* the targets so far
  nhdr, nwid, awid,     \* of Config
  indent, hdr,          \* read_config: the indent, and that a header waits for a target
  out,                  \* the log: "none", "created"
  cmd, pid,             \* the command line and the process number
  lines, said           \* for bounds and properties: lines read, option lines

file == <<targets, nhdr, nwid, awid, indent, hdr>>
vars == <<phase, opts, file, out, cmd, pid, lines, said>>

Default == [ch \in Known |-> CASE ch = "s" -> 1 [] ch = "p" -> 1000 [] OTHER -> 0]

AtLeast(i, j) == IF i > j THEN i ELSE j

Init ==
  /\ phase = "file" /\ opts = Default
  /\ targets = <<>> /\ nhdr = 0 /\ nwid = 6 /\ awid = 6 /\ indent = 0 /\ hdr = FALSE
  /\ out = "none"
  /\ cmd \in CommandLines /\ pid \in Pids
  /\ lines = 0 /\ said = <<>>

Fail == phase' = "failed" /\ UNCHANGED <<opts, file, out, cmd, pid, said>>

-------------------------------------------------------------------------------
(* check_opt *)

\* Mutant: -m is not held against the size of the headers.
AcceptsSmall(ch, arg) ==
  /\ ch \in Known
  /\ ch = "m" => arg \in 1 .. MAXSZ
  /\ ch \in {"p", "N"} => arg >= 1
  /\ ch = "s" => arg \in 1 .. 5

Accepts(ch, arg) ==
  /\ ch \in Known
  /\ ch = "m" => arg \in ICMP_HDR_LEN + TS_LEN .. MAXSZ
  /\ ch \in {"p", "N"} => arg >= 1
  /\ ch = "s" => arg \in 1 .. 5

Value(ch, arg) == IF ch \in Flags THEN 1 ELSE arg

-------------------------------------------------------------------------------
(* read_config: a step is a line of the file.  A comment or an empty line   *)
(* changes nothing.                                                         *)

ReadLine == phase = "file" /\ lines < MaxLines /\ lines' = lines + 1

\* Mutant: ending the indent always takes a header off the count.
HeaderLineDiscounted ==
  /\ ReadLine
  /\ \E text \in BOOLEAN :
       /\ IF text \/ indent = 0
            THEN hdr' = TRUE /\ nhdr' = nhdr + 1
            ELSE hdr' = FALSE /\ nhdr' = nhdr - 1
       /\ indent' = IF text THEN 3 ELSE 0
  /\ UNCHANGED <<phase, opts, targets, nwid, awid, out, cmd, pid, said>>

\* '>': a header for the next target.  Without a text it ends the indent, and
\* takes back a header that waits; it is an empty header where there was none.
HeaderLine ==
  /\ ReadLine
  /\ \E text \in BOOLEAN :
       /\ IF text \/ indent = 0
            THEN hdr' = TRUE /\ nhdr' = nhdr + 1
            ELSE hdr' = FALSE /\ UNCHANGED nhdr
       /\ indent' = IF text THEN 3 ELSE 0
  /\ UNCHANGED <<phase, opts, targets, nwid, awid, out, cmd, pid, said>>

\* '-'
OptionLine ==
  /\ ReadLine
  /\ \E o \in FileOptions :
       \/ /\ Accepts(o[1], o[2])
          /\ opts' = [opts EXCEPT ![o[1]] = Value(o[1], o[2])]
          /\ said' = Append(said, o)
          /\ UNCHANGED <<phase, file, out, cmd, pid>>
       \/ ~Accepts(o[1], o[2]) /\ Fail

\* The part of a Target that the configuration decides; name and host are the
\* lengths of the two texts, the name's with its indent.
Target == [hdr : BOOLEAN, name : Nat, host : Nat, ip : {Address[h] : h \in Hosts} \ {Unresolved}]

\* The target that a line makes of a host and a display name.
NewTarget(host, display) ==
  [hdr  |-> hdr,
   name |-> indent + (IF display > 0 THEN display ELSE HostLength[host]),
   host |-> IF display > 0 THEN HostLength[host] ELSE 0,
   ip   |-> Address[host]]

\* Mutant: the indent is not part of the name.
WidenedFlat(t) == nwid' = AtLeast(nwid, t.name - indent) /\ awid' = AtLeast(awid, t.host)

Widened(t) == nwid' = AtLeast(nwid, t.name) /\ awid' = AtLeast(awid, t.host)

\* Mutant: only the last target is looked at.
DuplicateOfLast(ip) == targets # <<>> /\ targets[Len(targets)].ip = ip

Duplicate(ip) == \E i \in DOMAIN targets : targets[i].ip = ip

TargetLine ==
  /\ ReadLine
  /\ \E host \in Hosts, display \in Displays :
       LET t == NewTarget(host, display)
           bad == t.ip = Unresolved \/ Duplicate(t.ip)
       IN  \/ /\ ~bad
              /\ targets' = Append(targets, t) /\ Widened(t) /\ hdr' = FALSE
              /\ UNCHANGED <<phase, opts, nhdr, indent, out, cmd, pid, said>>
           \/ bad /\ Fail

EndOfFile ==
  /\ phase = "file"
  /\ \/ targets # <<>> /\ phase' = "args" /\ UNCHANGED <<opts, file, out, cmd, pid, said>>
     \/ targets = <<>> /\ Fail
  /\ UNCHANGED lines

\* No file can be read.
NoFile == phase = "file" /\ lines = 0 /\ Fail /\ UNCHANGED lines

-------------------------------------------------------------------------------
(* main *)

\* Mutant: what the file says is kept.
ApplyArgsUnlessSaid ==
  /\ phase = "args" /\ \A o \in cmd : Accepts(o[1], o[2])
  /\ opts' = [ch \in Known |->
                IF \E o \in cmd : o[1] = ch /\ \A i \in DOMAIN said : said[i][1] # ch
                THEN LET o == CHOOSE p \in cmd : p[1] = ch IN Value(ch, o[2])
                ELSE opts[ch]]
  /\ phase' = "checks"
  /\ UNCHANGED <<file, out, cmd, pid, lines, said>>

\* The options of the command line, one after the other.
ApplyArgs ==
  /\ phase = "args" /\ \A o \in cmd : Accepts(o[1], o[2])
  /\ opts' = [ch \in Known |->
                IF \E o \in cmd : o[1] = ch
                THEN LET o == CHOOSE p \in cmd : p[1] = ch IN Value(ch, o[2])
                ELSE opts[ch]]
  /\ phase' = "checks"
  /\ UNCHANGED <<file, out, cmd, pid, lines, said>>

RefuseArgs ==
  /\ phase = "args" /\ \E o \in cmd : ~Accepts(o[1], o[2])
  /\ Fail /\ UNCHANGED lines

\* Mutant: the pauses after the probes of the sweep are forgotten.
PausesFitPings == opts["p"] * Len(targets) <= 950000

PausesFit == opts["p"] * (Len(targets) + T_TTL) <= 950000

CheckPause ==
  /\ phase = "checks"
  /\ \/ PausesFit /\ phase' = "log" /\ UNCHANGED <<opts, file, out, cmd, pid, said>>
     \/ ~PausesFit /\ Fail
  /\ UNCHANGED lines

\* With -o the log is created, which empties the one that was there, and its
\* header is written; either may fail.
OpenLog ==
  /\ phase = "log"
  /\ \/ /\ phase' = "sockets"
        /\ out' = IF opts["o"] # 0 THEN "created" ELSE "none"
        /\ UNCHANGED <<opts, file, cmd, pid, said>>
     \/ /\ opts["o"] # 0 /\ phase' = "failed"
        /\ out' \in {"none", "created"}
        /\ UNCHANGED <<opts, file, cmd, pid, said>>
  /\ UNCHANGED lines

\* The two sockets, the GPIO lines and the terminal; any of them may refuse.
Start ==
  /\ phase = "sockets"
  /\ \/ phase' = "run" /\ UNCHANGED <<opts, file, out, cmd, pid, said>>
     \/ Fail
  /\ UNCHANGED lines

Ended == phase \in {"run", "failed"} /\ UNCHANGED vars

Next ==
  \/ HeaderLine \/ OptionLine \/ TargetLine \/ EndOfFile \/ NoFile
  \/ ApplyArgs \/ RefuseArgs \/ CheckPause \/ OpenLog \/ Start \/ Ended

Spec == Init /\ [][Next]_vars

-------------------------------------------------------------------------------
\* The process number gives the identifiers of the pings and of the probes.
pingid == ((pid % 32768) * 2) % 65536
traceid == pingid + 1

\* How long the sender thread (net.rs) takes over a group, with the pauses after
\* each of its packets and the two at its end, in microseconds.
Period ==
  LET used == Len(targets) * opts["p"]
  IN  T_TTL * opts["p"] + used + AtLeast(950000 - used, 0)
        + AtLeast(opts["s"] - 1, 0) * 1000000 + 50000

-------------------------------------------------------------------------------
\* Every variable keeps its type; no option, from the file or the command line,
\* takes a value that the sender thread cannot work with.
StartupTypeOK ==
  /\ phase \in {"file", "args", "checks", "log", "sockets", "run", "failed"}
  /\ opts \in [Known -> Int] /\ \A ch \in Flags : opts[ch] \in {0, 1}
  /\ opts["m"] \in {0} \cup (ICMP_HDR_LEN + TS_LEN .. MAXSZ)
  /\ opts["s"] \in 1 .. 5 /\ opts["p"] >= 1 /\ opts["N"] >= 0
  /\ targets \in Seq(Target)
  /\ nhdr \in Nat /\ nwid \in Nat /\ awid \in Nat /\ indent \in {0, 3} /\ hdr \in BOOLEAN
  /\ out \in {"none", "created"} /\ cmd \in CommandLines /\ pid \in Pids
  /\ lines \in Nat /\ said \in Seq(FileOptions)

\* The targets with a header line above them, Viewport's Headed.
HeadedTargets == {i \in DOMAIN targets : targets[i].hdr}

\* Whatever headers are replaced, taken back or left without a target, nhdr is
\* at least the number of header lines in the list: what the test whether the
\* list fits the screen (Viewport's HeaderAssumption) relies on.
HeadersCounted == Cardinality(HeadedTargets) + (IF hdr THEN 1 ELSE 0) <= nhdr

\* No name or address is cut off in its column, with any mix of indents.
ColumnsFit == \A i \in DOMAIN targets : targets[i].name <= nwid /\ targets[i].host <= awid

\* An address names one target, whatever host names stand for it: process() gives
\* an answer to the first target with its source address.
AddressNamesTarget ==
  \A i, j \in DOMAIN targets : targets[i].ip = targets[j].ip => i = j

\* A program that was started goes by the command line, else by the last option
\* line of the file, else by the default.
CommandLineWins ==
  phase = "run" => \A ch \in Known \ Flags :
    LET said_at == {i \in DOMAIN said : said[i][1] = ch}
    IN  \/ <<ch, opts[ch]>> \in cmd
        \/ /\ \A o \in cmd : o[1] # ch
           /\ opts[ch] = IF said_at = {} THEN Default[ch] ELSE said[Max(said_at)][2]

\* A group of a started program takes less than a second more than -s asks for,
\* with the probes of the sweep, which the pause at its end does not deduct.
PeriodWithinASecond ==
  phase = "run" => Period >= opts["s"] * 1000000 /\ Period < (opts["s"] + 1) * 1000000

-------------------------------------------------------------------------------
(* The packets of a program that was started.                              *)

\* Sequence numbers and time stamps, where carries and high bits matter.
Sequences16 == {1, 65529}
Stamps == {[i \in 1 .. TS_LEN |-> 255], [i \in 1 .. TS_LEN |-> 31 * i]}

Request(id, seq, ts) == BuildEcho(id, seq, opts["m"], ts)

\* What the network makes of a request: an IP header of 4 * ihl bytes in front,
\* an echo reply, an error message that quotes n bytes behind an IP header.
Received(ihl, icmp) == <<64 + ihl>> \o Zeros(7) \o <<55>> \o Zeros(4 * ihl - 9) \o icmp
Reply(request) == [request EXCEPT ![1] = ICMP_ECHOREPLY]
Error(type, request, n) ==
  <<type, 0>> \o Zeros(ICMP_HDR_LEN - 2) \o Received(5, SubSeq(request, 1, n))

\* The other end adds up words with the high byte first: the sum of every request
\* is zero in ones' complement there too, on whatever host it was made.
ChecksumIsRight ==
  phase = "run" => \A id \in {pingid, traceid}, seq \in Sequences16, ts \in Stamps :
    LET request == Request(id, seq, ts)
        sum == Total([i \in 1 .. Len(request) |->
                        IF i % 2 = 1 THEN 256 * request[i] ELSE request[i]])
    IN  sum > 0 /\ sum % 65535 = 0

\* Behind an IP header with options or without, the receiver takes a reply to a ping, a reply
\* to a probe and an error about a probe for what they are, with the right sequence
\* number - errors about a ping, and its own requests on a loopback, for nothing.
\* A time exceeded that quotes only the first 8 bytes is not taken.
AnswersAreRecognised ==
  phase = "run" => \A seq \in Sequences16, ihl \in {5, 6, 15} :
    LET ping == Request(pingid, seq, Zeros(TS_LEN))
        probe == Request(traceid, seq, Zeros(TS_LEN))
        TakenFor(icmp) == Taken(Received(ihl, icmp), pingid, traceid)
        Answers(icmp, kind) == TakenFor(icmp) = [kind |-> kind, rsq |-> seq]
        Nothing(icmp) == TakenFor(icmp) = NotOurs
    IN  /\ Answers(Reply(ping), "ping") /\ Answers(Reply(probe), "echo")
        /\ Answers(Error(ICMP_TIME_EXCEEDED, probe, Len(probe)), "exceeded")
        /\ Nothing(Error(ICMP_TIME_EXCEEDED, probe, 8))
        /\ Answers(Error(ICMP_UNREACH, probe, 8), "unreachable")
        /\ \A type \in {ICMP_TIME_EXCEEDED, ICMP_UNREACH} : Nothing(Error(type, ping, Len(ping)))
        /\ Nothing(ping) /\ Nothing(probe)

===============================================================================
