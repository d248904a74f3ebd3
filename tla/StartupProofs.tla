---------------------------- MODULE StartupProofs ----------------------------
(***************************************************************************)
(* Proofs about Startup, for every file, command line and host table.       *)
(***************************************************************************)
EXTENDS Startup, IcmpProofs, FiniteSetTheorems

USE DEF ICMP_HDR_LEN, TS_LEN

\* What check_opt accepts keeps every option in its range.
LEMMA AcceptedInRange ==
  ASSUME NEW ch, NEW arg \in Int, Accepts(ch, arg)
  PROVE  /\ ch \in Known /\ Value(ch, arg) \in Int
         /\ ch \in Flags => Value(ch, arg) \in {0, 1}
         /\ ch = "m" => Value(ch, arg) \in ICMP_HDR_LEN + TS_LEN .. MAXSZ
         /\ ch = "s" => Value(ch, arg) \in 1 .. 5
         /\ ch = "p" => Value(ch, arg) >= 1
         /\ ch = "N" => Value(ch, arg) >= 0
  BY DEF Accepts, Value, Flags, Known

\* The options as far as the sender thread relies on them.
OptsOK(o) ==
  /\ o \in [Known -> Int] /\ \A ch \in Flags : o[ch] \in {0, 1}
  /\ o["m"] \in {0} \cup (ICMP_HDR_LEN + TS_LEN .. MAXSZ)
  /\ o["s"] \in 1 .. 5 /\ o["p"] >= 1 /\ o["N"] >= 0

\* An accepted option keeps the options in range.
LEMMA OneOption ==
  ASSUME OptsOK(opts), NEW ch, NEW arg \in Int, Accepts(ch, arg)
  PROVE  OptsOK([opts EXCEPT ![ch] = Value(ch, arg)])
  BY AcceptedInRange DEF OptsOK, Known, Flags

\* So does a whole command line of them.
LEMMA CommandLine ==
  ASSUME OptsOK(opts), cmd \in CommandLines, ApplyArgs
  PROVE  OptsOK(opts')
<1> DEFINE Given(ch) == \E o \in cmd : o[1] = ch
           Of(ch) == CHOOSE p \in cmd : p[1] = ch
<1>1. cmd \subseteq Known \X Int
  BY CommandLineAssumption
<1>2. \A o \in cmd : Accepts(o[1], o[2])
  BY DEF ApplyArgs
<1>3. opts' = [ch \in Known |-> IF Given(ch) THEN Value(ch, Of(ch)[2]) ELSE opts[ch]]
  BY DEF ApplyArgs
<1>4. ASSUME NEW ch \in Known, Given(ch)
      PROVE  Accepts(ch, Of(ch)[2]) /\ Of(ch)[2] \in Int
  <2>1. Of(ch) \in cmd /\ Of(ch)[1] = ch
    BY <1>4
  <2> QED
    BY <2>1, <1>1, <1>2
<1> HIDE DEF Given, Of
<1>5. \A ch \in Known : opts'[ch] = IF Given(ch) THEN Value(ch, Of(ch)[2]) ELSE opts[ch]
  BY <1>3
<1>6. \A ch \in Known : opts'[ch] \in Int
  BY <1>4, <1>5, AcceptedInRange DEF OptsOK
<1>7. opts' \in [Known -> Int]
  BY <1>3, <1>5, <1>6
<1>8. \A ch \in Flags : opts'[ch] \in {0, 1}
  BY <1>4, <1>5, AcceptedInRange DEF OptsOK, Known
<1>9. /\ opts'["m"] \in {0} \cup (ICMP_HDR_LEN + TS_LEN .. MAXSZ)
      /\ opts'["s"] \in 1 .. 5 /\ opts'["p"] >= 1 /\ opts'["N"] >= 0
  BY <1>4, <1>5, AcceptedInRange DEF OptsOK, Known
<1> QED
  BY <1>7, <1>8, <1>9 DEF OptsOK

\* What a target line makes is a target, if its host resolves.
LEMMA NewTargetType ==
  ASSUME NEW host \in Hosts, NEW display \in Displays, indent \in {0, 3}, hdr \in BOOLEAN,
         NewTarget(host, display).ip # Unresolved
  PROVE  NewTarget(host, display) \in Target
<1>1. display \in Nat /\ HostLength[host] \in Nat
  BY HostsAssumption
<1>2. Address[host] \in {Address[h] : h \in Hosts} \ {Unresolved}
  BY DEF NewTarget
<1> QED
  BY <1>1, <1>2 DEF NewTarget, Target

-------------------------------------------------------------------------------
\* Every variable keeps its type, and every option its range: whatever the file and
\* the command line say, the sender thread is given values it can work with.
THEOREM TypesAndRanges == Spec => []StartupTypeOK
<1>1. Init => StartupTypeOK
  <2> SUFFICES ASSUME Init PROVE StartupTypeOK
    OBVIOUS
  <2>1. /\ opts \in [Known -> Int] /\ \A ch \in Flags : opts[ch] \in {0, 1}
        /\ opts["m"] = 0 /\ opts["s"] = 1 /\ opts["p"] = 1000 /\ opts["N"] = 0
    BY DEF Init, Default, Known, Flags
  <2>2. hdr \in BOOLEAN
    BY Zenon DEF Init
  <2>3. targets \in Seq(Target) /\ said \in Seq(FileOptions)
    BY DEF Init
  <2> QED
    BY <2>1, <2>2, <2>3 DEF Init, StartupTypeOK
<1>2. StartupTypeOK /\ [Next]_vars => StartupTypeOK'
  <2> SUFFICES ASSUME StartupTypeOK, [Next]_vars PROVE StartupTypeOK'
    OBVIOUS
  <2>0. OptsOK(opts)
    BY DEF StartupTypeOK, OptsOK
  <2>f. ASSUME Fail, lines' \in Nat PROVE StartupTypeOK'
    BY <2>f DEF Fail, file, StartupTypeOK
  <2>1. CASE HeaderLine
    <3>1. nhdr' \in Nat /\ indent' \in {0, 3} /\ lines' \in Nat
      BY <2>1 DEF HeaderLine, ReadLine, StartupTypeOK
    <3>2. hdr' \in BOOLEAN
      BY <2>1, Zenon DEF HeaderLine
    <3> QED
      BY <2>1, <3>1, <3>2 DEF HeaderLine, StartupTypeOK
  <2>2. CASE OptionLine
    <3>1. lines' \in Nat
      BY <2>2 DEF OptionLine, ReadLine, StartupTypeOK
    <3>2. ASSUME NEW o \in FileOptions, Accepts(o[1], o[2]),
                 opts' = [opts EXCEPT ![o[1]] = Value(o[1], o[2])],
                 said' = Append(said, o),
                 UNCHANGED <<phase, file, out, cmd, pid>>
          PROVE  StartupTypeOK'
      <4>1. o[2] \in Int
        BY OptionsAssumption
      <4>2. OptsOK([opts EXCEPT ![o[1]] = Value(o[1], o[2])])
        BY <3>2, <4>1, <2>0, OneOption
      <4>3. OptsOK(opts')
        BY <3>2, <4>2
      <4>4. said' \in Seq(FileOptions)
        BY <3>2 DEF StartupTypeOK
      <4> QED
        BY <3>1, <3>2, <4>3, <4>4 DEF StartupTypeOK, OptsOK, file
    <3> QED
      BY <2>2, <3>1, <3>2, <2>f DEF OptionLine
  <2>3. CASE TargetLine
    <3>1. lines' \in Nat
      BY <2>3 DEF TargetLine, ReadLine, StartupTypeOK
    <3>2. CASE Fail
      BY <3>1, <3>2, <2>f
    <3>3. ASSUME NEW host \in Hosts, NEW display \in Displays,
                 NewTarget(host, display).ip # Unresolved,
                 targets' = Append(targets, NewTarget(host, display)),
                 Widened(NewTarget(host, display)), hdr' = FALSE,
                 UNCHANGED <<phase, opts, nhdr, indent, out, cmd, pid, said>>
          PROVE  StartupTypeOK'
      <4>1. NewTarget(host, display) \in Target
        BY <3>3, NewTargetType DEF StartupTypeOK
      <4>2. targets' \in Seq(Target)
        BY <3>3, <4>1 DEF StartupTypeOK
      <4>3. nwid' \in Nat /\ awid' \in Nat
        BY <3>3, <4>1 DEF Widened, AtLeast, Target, StartupTypeOK
      <4> QED
        BY <3>1, <3>3, <4>2, <4>3 DEF StartupTypeOK
    <3> QED
      BY <2>3, <3>2, <3>3 DEF TargetLine
  <2>4. CASE EndOfFile \/ NoFile \/ RefuseArgs \/ CheckPause \/ OpenLog \/ Start
    BY <2>4, <2>f DEF EndOfFile, NoFile, RefuseArgs, CheckPause, OpenLog, Start, StartupTypeOK, file
  <2>5. CASE ApplyArgs
    <3>1. OptsOK(opts')
      BY <2>5, <2>0, CommandLine DEF StartupTypeOK
    <3> QED
      BY <2>5, <3>1 DEF ApplyArgs, StartupTypeOK, OptsOK, file
  <2>6. CASE Ended \/ UNCHANGED vars
    BY <2>6 DEF Ended, vars, file, StartupTypeOK
  <2> QED
    BY <2>1, <2>2, <2>3, <2>4, <2>5, <2>6 DEF Next
<1>3. QED
  BY <1>1, <1>2, PTL DEF Spec

-------------------------------------------------------------------------------
\* The list of targets and what is counted over it change in two ways only: a header
\* line, and a target line that adds one target.
TargetAdded ==
  \E t \in Target :
    /\ ~Duplicate(t.ip) /\ t.hdr = hdr
    /\ targets' = Append(targets, t) /\ Widened(t) /\ hdr' = FALSE
    /\ UNCHANGED nhdr

LEMMA HowTargetsChange ==
  ASSUME StartupTypeOK, [Next]_vars
  PROVE  TargetAdded \/ HeaderLine \/ UNCHANGED file
<1>1. CASE TargetLine
  <2>1. CASE Fail
    BY <2>1 DEF Fail
  <2>2. ASSUME NEW host \in Hosts, NEW display \in Displays,
               ~(NewTarget(host, display).ip = Unresolved \/ Duplicate(NewTarget(host, display).ip)),
               targets' = Append(targets, NewTarget(host, display)),
               Widened(NewTarget(host, display)), hdr' = FALSE,
               UNCHANGED <<phase, opts, nhdr, indent, out, cmd, pid, said>>
        PROVE  TargetAdded
    <3>1. NewTarget(host, display) \in Target
      BY <2>2, NewTargetType DEF StartupTypeOK
    <3>2. NewTarget(host, display).hdr = hdr
      BY DEF NewTarget
    <3> QED
      BY <2>2, <3>1, <3>2 DEF TargetAdded
  <2> QED
    BY <1>1, <2>1, <2>2 DEF TargetLine
<1>2. CASE OptionLine \/ EndOfFile \/ NoFile \/ ApplyArgs \/ RefuseArgs \/ CheckPause
           \/ OpenLog \/ Start \/ Ended \/ UNCHANGED vars
  BY <1>2 DEF OptionLine, EndOfFile, NoFile, ApplyArgs, RefuseArgs, CheckPause, OpenLog,
              Start, Ended, Fail, vars
<1> QED
  BY <1>1, <1>2 DEF Next

\* No name and no address is wider than its column, whatever the indents.
THEOREM NothingIsCutOff == Spec => []ColumnsFit
<1>1. Init => ColumnsFit
  BY DEF Init, ColumnsFit
<1>2. StartupTypeOK /\ ColumnsFit /\ [Next]_vars => ColumnsFit'
  <2> SUFFICES ASSUME StartupTypeOK, ColumnsFit, [Next]_vars PROVE ColumnsFit'
    OBVIOUS
  <2>1. CASE TargetAdded
    <3> PICK t \in Target : targets' = Append(targets, t) /\ Widened(t)
      BY <2>1 DEF TargetAdded
    <3>1. /\ nwid' >= nwid /\ awid' >= awid /\ nwid' >= t.name /\ awid' >= t.host
          /\ nwid \in Nat /\ awid \in Nat /\ nwid' \in Nat /\ awid' \in Nat
      BY DEF Widened, AtLeast, Target, StartupTypeOK
    <3>2. ASSUME NEW i \in DOMAIN targets'
          PROVE  IF i \in DOMAIN targets THEN targets'[i] = targets[i] ELSE targets'[i] = t
      BY <3>2 DEF StartupTypeOK
    <3>3. \A i \in DOMAIN targets : targets[i] \in Target
      BY DEF StartupTypeOK
    <3>4. \A x \in Target : x.name \in Nat /\ x.host \in Nat
      BY DEF Target
    <3> QED
      BY <3>1, <3>2, <3>3, <3>4 DEF ColumnsFit
  <2>2. CASE HeaderLine \/ UNCHANGED file
    BY <2>2 DEF HeaderLine, file, ColumnsFit
  <2> QED
    BY <2>1, <2>2, HowTargetsChange
<1>3. QED
  BY <1>1, <1>2, TypesAndRanges, PTL DEF Spec

\* Two targets never have one address, so that an answer has one target.
THEOREM AddressesDiffer == Spec => []AddressNamesTarget
<1>1. Init => AddressNamesTarget
  BY DEF Init, AddressNamesTarget
<1>2. StartupTypeOK /\ AddressNamesTarget /\ [Next]_vars => AddressNamesTarget'
  <2> SUFFICES ASSUME StartupTypeOK, AddressNamesTarget, [Next]_vars PROVE AddressNamesTarget'
    OBVIOUS
  <2>1. CASE TargetAdded
    <3> PICK t \in Target : ~Duplicate(t.ip) /\ targets' = Append(targets, t)
      BY <2>1 DEF TargetAdded
    <3>1. ASSUME NEW i \in DOMAIN targets'
          PROVE  \/ i \in DOMAIN targets /\ targets'[i] = targets[i]
                 \/ i = Len(targets) + 1 /\ targets'[i] = t
      BY <3>1 DEF StartupTypeOK
    <3>2. \A i \in DOMAIN targets : targets[i].ip # t.ip
      BY DEF Duplicate
    <3> QED
      BY <3>1, <3>2 DEF AddressNamesTarget
  <2>2. CASE HeaderLine \/ UNCHANGED file
    BY <2>2 DEF HeaderLine, file, AddressNamesTarget
  <2> QED
    BY <2>1, <2>2, HowTargetsChange
<1>3. QED
  BY <1>1, <1>2, TypesAndRanges, PTL DEF Spec

-------------------------------------------------------------------------------
LEMMA HeadedFinite ==
  ASSUME StartupTypeOK
  PROVE  IsFiniteSet(HeadedTargets) /\ Cardinality(HeadedTargets) \in Nat
<1>1. Len(targets) \in Nat /\ DOMAIN targets = 1 .. Len(targets)
  BY DEF StartupTypeOK
<1>2. IsFiniteSet(1 .. Len(targets))
  BY <1>1, FS_Interval
<1>3. IsFiniteSet(HeadedTargets)
  BY <1>1, <1>2, FS_Subset DEF HeadedTargets
<1> QED
  BY <1>3, FS_CardinalityType

\* The header lines in the list, and the one that waits, have all been counted.
THEOREM EveryHeaderCounts == Spec => []HeadersCounted
<1>1. Init => HeadersCounted
  <2> SUFFICES ASSUME Init PROVE HeadersCounted
    OBVIOUS
  <2>1. HeadedTargets = {}
    BY DEF Init, HeadedTargets
  <2> QED
    BY <2>1, FS_EmptySet DEF Init, HeadersCounted
<1>2. StartupTypeOK /\ StartupTypeOK' /\ HeadersCounted /\ [Next]_vars => HeadersCounted'
  <2> SUFFICES ASSUME StartupTypeOK, StartupTypeOK', HeadersCounted, [Next]_vars
               PROVE  HeadersCounted'
    OBVIOUS
  <2> DEFINE n == Cardinality(HeadedTargets)
  <2>0. n \in Nat /\ nhdr \in Nat /\ n + (IF hdr THEN 1 ELSE 0) <= nhdr
    BY HeadedFinite DEF HeadersCounted, StartupTypeOK
  <2>1. CASE TargetAdded
    <3> PICK t \in Target : t.hdr = hdr /\ targets' = Append(targets, t) /\ hdr' = FALSE
                            /\ UNCHANGED nhdr
      BY <2>1 DEF TargetAdded
    <3>1. HeadedTargets' = HeadedTargets \cup (IF hdr THEN {Len(targets) + 1} ELSE {})
      BY DEF HeadedTargets, StartupTypeOK
    <3>2. Len(targets) + 1 \notin HeadedTargets
      BY DEF HeadedTargets, StartupTypeOK
    <3>3. CASE hdr = TRUE
      <4>1. n' = n + 1
        BY <3>1, <3>2, <3>3, HeadedFinite, FS_AddElement
      <4>2. n' \in Nat /\ n' <= nhdr'
        BY <2>0, <3>3, <4>1
      <4> QED
        BY <4>2 DEF HeadersCounted
    <3>4. CASE hdr = FALSE
      <4>1. n' = n
        BY <3>1, <3>4
      <4>2. n' \in Nat /\ n' <= nhdr'
        BY <2>0, <3>4, <4>1
      <4> QED
        BY <4>2 DEF HeadersCounted
    <3> QED
      BY <3>3, <3>4 DEF StartupTypeOK
  <2>2. CASE HeaderLine
    <3>1. n' = n
      BY <2>2 DEF HeaderLine, HeadedTargets
    <3>2. n <= nhdr
      BY <2>0
    <3>3. (hdr' = TRUE /\ nhdr' = nhdr + 1) \/ (hdr' = FALSE /\ nhdr' = nhdr)
      BY <2>2 DEF HeaderLine
    <3> HIDE DEF n
    <3>4. n' + (IF hdr' THEN 1 ELSE 0) <= nhdr'
      BY <2>0, <3>1, <3>2, <3>3
    <3> QED
      BY <3>4 DEF HeadersCounted, n
  <2>3. CASE UNCHANGED file
    BY <2>3 DEF file, HeadersCounted, HeadedTargets
  <2> QED
    BY <2>1, <2>2, <2>3, HowTargetsChange
<1>3. QED
  BY <1>1, <1>2, TypesAndRanges, PTL DEF Spec

-------------------------------------------------------------------------------
\* What the check of the pauses is still worth when the program starts.
PauseChecked == phase \in {"log", "sockets", "run"} => PausesFit

\* The period of a group, for every -s and -p that main lets through and any number
\* of targets: no less than asked for, and less than a second more.
THEOREM PeriodBounded == Spec => []PeriodWithinASecond
<1>1. Init => PauseChecked
  BY DEF Init, PauseChecked
<1>2. PauseChecked /\ [Next]_vars => PauseChecked'
  <2> SUFFICES ASSUME PauseChecked, [Next]_vars PROVE PauseChecked'
    OBVIOUS
  <2>1. CASE CheckPause
    BY <2>1, SMT DEF CheckPause, Fail, file, PauseChecked, PausesFit
  <2>2. CASE HeaderLine \/ OptionLine \/ TargetLine \/ EndOfFile \/ NoFile \/ ApplyArgs \/ RefuseArgs
    BY <2>2 DEF HeaderLine, OptionLine, TargetLine, ReadLine, EndOfFile, NoFile, ApplyArgs,
                RefuseArgs, Fail, PauseChecked
  <2>3. CASE OpenLog \/ Start
    BY <2>3 DEF OpenLog, Start, Fail, file, PauseChecked, PausesFit
  <2>4. CASE Ended \/ UNCHANGED vars
    BY <2>4 DEF Ended, vars, file, PauseChecked, PausesFit
  <2> QED
    BY <2>1, <2>2, <2>3, <2>4 DEF Next
<1>3. StartupTypeOK /\ PauseChecked => PeriodWithinASecond
  <2> SUFFICES ASSUME StartupTypeOK, PausesFit
               PROVE  Period >= opts["s"] * 1000000 /\ Period < (opts["s"] + 1) * 1000000
    BY SMT DEF PauseChecked, PeriodWithinASecond
  <2> DEFINE p == opts["p"]
             s == opts["s"]
             used == Len(targets) * p
  <2>1. p \in Nat /\ p >= 1 /\ s \in 1 .. 5 /\ Len(targets) \in Nat
    BY DEF StartupTypeOK, Known
  <2>2. used \in Nat
    BY <2>1
  <2>3. used + 24 * p <= 950000
    BY <2>1, SMT DEF PausesFit, T_TTL
  <2>4. Period = 24 * p + used + AtLeast(950000 - used, 0) + AtLeast(s - 1, 0) * 1000000 + 50000
    BY SMT DEF Period, T_TTL
  <2> HIDE DEF p, s, used
  <2>5. AtLeast(950000 - used, 0) = 950000 - used
    BY <2>1, <2>2, <2>3, Z3 DEF AtLeast
  <2>6. AtLeast(s - 1, 0) = s - 1
    BY <2>1, Z3 DEF AtLeast
  <2>7. Period = 24 * p + 1000000 * s
    BY <2>1, <2>2, <2>4, <2>5, <2>6, Z3
  <2>8. Period >= s * 1000000 /\ Period < (s + 1) * 1000000
    BY <2>1, <2>2, <2>3, <2>7, Z3
  <2> QED
    BY <2>8, Z3 DEF s
<1>4. QED
  BY <1>1, <1>2, <1>3, TypesAndRanges, PTL DEF Spec

-------------------------------------------------------------------------------
\* An option has its default, or the value of the last line of the file that
\* gives it.
LastSaid(ch) ==
  LET at == {i \in DOMAIN said : said[i][1] = ch}
  IN  \/ at = {} /\ opts[ch] = Default[ch]
      \/ \E i \in at : (\A j \in at : j <= i) /\ opts[ch] = said[i][2]

\* Where an option's value comes from, before and after the command line.
OptsFollow ==
  /\ phase \in {"file", "args"} => \A ch \in Known \ Flags : LastSaid(ch)
  /\ phase \in {"checks", "log", "sockets", "run"} => \A ch \in Known \ Flags :
       <<ch, opts[ch]>> \in cmd \/ ((\A o \in cmd : o[1] # ch) /\ LastSaid(ch))

\* A line of the file that is accepted is the last one for its option, and
\* leaves the others as they are.
LEMMA OneMoreSaid ==
  ASSUME StartupTypeOK, NEW o, o[1] \in Known, said' = Append(said, o),
         opts' = [opts EXCEPT ![o[1]] = Value(o[1], o[2])],
         NEW ch \in Known \ Flags, LastSaid(ch)
  PROVE  LastSaid(ch)'
<1> DEFINE at == {i \in DOMAIN said : said[i][1] = ch}
<1>1. said \in Seq(FileOptions) /\ Len(said) \in Nat /\ opts \in [Known -> Int]
  BY DEF StartupTypeOK
<1>2. /\ DOMAIN said = 1 .. Len(said) /\ DOMAIN said' = 1 .. Len(said) + 1
      /\ said'[Len(said) + 1] = o
      /\ \A i \in 1 .. Len(said) : said'[i] = said[i]
  BY <1>1
<1>3. CASE o[1] = ch
  <2>1. opts'[ch] = o[2]
    BY <1>1, <1>3 DEF Value
  <2>2. Len(said) + 1 \in at' /\ \A j \in at' : j <= Len(said) + 1
    BY <1>1, <1>2, <1>3
  <2> QED
    BY <1>2, <2>1, <2>2 DEF LastSaid
<1>4. CASE o[1] # ch
  <2>1. opts'[ch] = opts[ch]
    BY <1>1, <1>4
  <2>2. at' = at
    <3>1. \A i \in 1 .. Len(said) + 1 : i = Len(said) + 1 \/ i \in 1 .. Len(said)
      BY <1>1
    <3>2. 1 .. Len(said) \subseteq 1 .. Len(said) + 1
      BY <1>1
    <3>3. ASSUME NEW i \in at' PROVE i \in at
      BY <1>2, <1>4, <3>1
    <3>4. ASSUME NEW i \in at PROVE i \in at'
      BY <1>2, <3>2
    <3> QED
      BY <3>3, <3>4
  <2>3. \A i \in at : said'[i] = said[i]
    BY <1>2
  <2> QED
    BY <2>1, <2>2, <2>3 DEF LastSaid
<1> QED
  BY <1>3, <1>4

\* A started program goes by the command line, else by the last line of the file,
\* else by the default: whatever lines and options are repeated (check_opt, called
\* by read_config and then by main).
THEOREM LastWordWins == Spec => []CommandLineWins
<1>1. Init => OptsFollow
  <2>1. Init => phase = "file" /\ opts = Default /\ said = <<>>
    BY DEF Init
  <2> QED
    BY <2>1 DEF OptsFollow, LastSaid
<1>2. StartupTypeOK /\ OptsFollow /\ [Next]_vars => OptsFollow'
  <2> SUFFICES ASSUME StartupTypeOK, OptsFollow, [Next]_vars PROVE OptsFollow'
    OBVIOUS
  <2>f. ASSUME phase' = "failed" PROVE OptsFollow'
    BY <2>f DEF OptsFollow
  <2>u. ASSUME UNCHANGED <<opts, said, cmd>>,
               \/ phase' = phase
               \/ phase = "file" /\ phase' = "args"
               \/ phase \in {"checks", "log", "sockets"} /\ phase' \in {"log", "sockets", "run"}
        PROVE  OptsFollow'
    BY <2>u DEF OptsFollow, LastSaid
  <2>1. CASE HeaderLine \/ TargetLine \/ EndOfFile \/ NoFile
    BY <2>1, <2>f, <2>u DEF HeaderLine, TargetLine, EndOfFile, NoFile, ReadLine, Fail
  <2>2. CASE RefuseArgs \/ CheckPause \/ OpenLog \/ Start
    BY <2>2, <2>f, <2>u DEF RefuseArgs, CheckPause, OpenLog, Start, Fail
  <2>3. CASE Ended \/ UNCHANGED vars
    BY <2>3, <2>u DEF Ended, vars
  <2>4. CASE OptionLine
    <3>1. CASE Fail
      BY <3>1, <2>f DEF Fail
    <3>2. CASE ~Fail
      <4>1. PICK o \in FileOptions :
              /\ Accepts(o[1], o[2])
              /\ opts' = [opts EXCEPT ![o[1]] = Value(o[1], o[2])]
              /\ said' = Append(said, o)
        BY <2>4, <3>2 DEF OptionLine
      <4>2. o[1] \in Known
        BY <4>1 DEF Accepts
      <4>3. phase = "file" /\ phase' = "file"
        BY <2>4, <3>2 DEF OptionLine, ReadLine
      <4>4. \A ch \in Known \ Flags : LastSaid(ch)'
        BY <4>1, <4>2, <4>3, OneMoreSaid DEF OptsFollow
      <4> QED
        BY <4>3, <4>4 DEF OptsFollow
    <3> QED
      BY <3>1, <3>2
  <2>5. CASE ApplyArgs
    <3>1. /\ phase = "args" /\ phase' = "checks" /\ UNCHANGED <<said, cmd>>
          /\ cmd \subseteq Known \X Int
      BY <2>5, CommandLineAssumption DEF ApplyArgs, StartupTypeOK
    <3>2. ASSUME NEW ch \in Known \ Flags
          PROVE  <<ch, opts'[ch]>> \in cmd' \/ ((\A o \in cmd' : o[1] # ch) /\ LastSaid(ch)')
      <4>1. CASE \E o \in cmd : o[1] = ch
        <5> DEFINE p == CHOOSE q \in cmd : q[1] = ch
        <5>1. p \in cmd /\ p[1] = ch
          BY <4>1
        <5>2. opts'[ch] = p[2]
          BY <2>5, <4>1 DEF ApplyArgs, Value
        <5> HIDE DEF p
        <5>3. p = <<ch, p[2]>>
          BY <3>1, <5>1
        <5> QED
          BY <3>1, <5>1, <5>2, <5>3
      <4>2. CASE ~\E o \in cmd : o[1] = ch
        <5>1. opts'[ch] = opts[ch]
          BY <2>5, <4>2 DEF ApplyArgs
        <5>2. LastSaid(ch)
          BY <3>1 DEF OptsFollow
        <5> QED
          BY <3>1, <4>2, <5>1, <5>2 DEF LastSaid
      <4> QED
        BY <4>1, <4>2
    <3> QED
      BY <3>1, <3>2 DEF OptsFollow
  <2> QED
    BY <2>1, <2>2, <2>3, <2>4, <2>5 DEF Next
<1>3. StartupTypeOK /\ OptsFollow => CommandLineWins
  <2> SUFFICES ASSUME StartupTypeOK, OptsFollow, phase = "run", NEW ch \in Known \ Flags,
                      <<ch, opts[ch]>> \notin cmd
               PROVE  LET at == {i \in DOMAIN said : said[i][1] = ch}
                      IN  /\ \A o \in cmd : o[1] # ch
                          /\ opts[ch] = IF at = {} THEN Default[ch] ELSE said[Max(at)][2]
    BY DEF CommandLineWins
  <2> DEFINE at == {i \in DOMAIN said : said[i][1] = ch}
  <2>1. (\A o \in cmd : o[1] # ch) /\ LastSaid(ch)
    BY DEF OptsFollow
  <2>2. at \subseteq Int
    BY DEF StartupTypeOK
  <2>3. CASE at = {}
    BY <2>1, <2>3 DEF LastSaid
  <2>4. CASE at # {}
    <3>1. PICK i \in at : (\A j \in at : j <= i) /\ opts[ch] = said[i][2]
      BY <2>1, <2>4 DEF LastSaid
    <3> HIDE DEF at
    <3>2. Max(at) = i
      BY <2>2, <3>1 DEF Max
    <3> QED
      BY <2>1, <2>4, <3>1, <3>2 DEF at
  <2> QED
    BY <2>3, <2>4
<1> QED
  BY <1>1, <1>2, <1>3, TypesAndRanges, PTL DEF Spec

-------------------------------------------------------------------------------
(* The packets of a program that was started.                              *)

\* The two identifiers are words, and different.
LEMMA Identifiers ==
  ASSUME pid \in Pids
  PROVE  pingid \in Word /\ traceid \in Word /\ pingid # traceid
<1> DEFINE low == pid % 32768
<1>1. low \in Nat /\ low < 32768
  <2>1. pid \in Nat
    BY NumbersAssumption
  <2> QED
    BY <2>1, Z3
<1>2. pingid = (low * 2) % 65536
  BY DEF pingid
<1> HIDE DEF low
<1>3. low * 2 \in Nat /\ low * 2 < 65535
  BY <1>1
<1> DEFINE twice == low * 2
<1>4. twice \in Nat /\ twice < 65535
  BY <1>3
<1>5. pingid = twice
  <2> HIDE DEF twice
  <2>1. twice % 65536 = twice
    BY <1>4, Z3
  <2> QED
    BY <1>2, <2>1 DEF twice
<1> QED
  BY <1>3, <1>5 DEF traceid, Word

\* The sequence numbers are words, and the time stamps bytes.
LEMMA SequencesAndStamps ==
  /\ Sequences16 \subseteq Word
  /\ \A ts \in Stamps : ts \in Seq(Byte) /\ Len(ts) = 8
  /\ Zeros(TS_LEN) \in Seq(Byte) /\ Len(Zeros(TS_LEN)) = 8
<1>1. Sequences16 \subseteq Word
  BY DEF Sequences16, Word
<1>2. \A i \in 1 .. 8 : 255 \in Byte /\ 31 * i \in Byte
  BY DEF Byte
<1>3. ASSUME NEW ts \in Stamps PROVE ts \in Seq(Byte) /\ Len(ts) = 8
  <2>1. CASE ts = [i \in 1 .. TS_LEN |-> 255]
    <3>1. [i \in 1 .. 8 |-> 255] \in Seq(Byte) /\ Len([i \in 1 .. 8 |-> 255]) = 8
      BY <1>2
    <3> QED
      BY <2>1, <3>1
  <2>2. CASE ts = [i \in 1 .. TS_LEN |-> 31 * i]
    <3>1. [i \in 1 .. 8 |-> 31 * i] \in Seq(Byte) /\ Len([i \in 1 .. 8 |-> 31 * i]) = 8
      BY <1>2
    <3> QED
      BY <2>2, <3>1
  <2> QED
    BY <2>1, <2>2 DEF Stamps
<1>4. Zeros(TS_LEN) \in Seq(Byte) /\ Len(Zeros(TS_LEN)) = 8
  BY ZerosAre
<1> QED
  BY <1>1, <1>3, <1>4

\* The sum of every request of a started program is zero in ones' complement with the
\* high byte of a word first too, whatever its size and its two identifiers.
THEOREM RequestsCloseAnywhere == Spec => []ChecksumIsRight
<1>1. StartupTypeOK => ChecksumIsRight
  <2> SUFFICES ASSUME StartupTypeOK,
                      NEW id \in {pingid, traceid}, NEW seq \in Sequences16, NEW ts \in Stamps
               PROVE  LET request == Request(id, seq, ts)
                          sum == Total([i \in 1 .. Len(request) |->
                                          IF i % 2 = 1 THEN 256 * request[i] ELSE request[i]])
                      IN  sum > 0 /\ sum % 65535 = 0
    BY DEF ChecksumIsRight
  <2>1. id \in Word /\ seq \in Word /\ ts \in Seq(Byte) /\ Len(ts) = 8
    <3>1. pid \in Pids
      BY DEF StartupTypeOK
    <3> QED
      BY <3>1, Identifiers, SequencesAndStamps
  <2>2. opts["m"] \in Nat /\ opts["m"] <= Ones
    BY SizeAssumption DEF StartupTypeOK, Ones
  <2>3. ICMP_HDR_LEN + Len(ts) <= Ones
    BY <2>1 DEF Ones
  <2> DEFINE request == Request(id, seq, ts)
  <2>4. Total(HighFirst(request)) > 0 /\ Total(HighFirst(request)) % Ones = 0
    BY <2>1, <2>2, <2>3, RequestsAddUp DEF Request
  <2> HIDE DEF request
  <2>5. HighFirst(request) = [i \in 1 .. Len(request) |->
                                IF i % 2 = 1 THEN 256 * request[i] ELSE request[i]]
    BY DEF HighFirst
  <2> QED
    BY <2>4, <2>5 DEF request, Ones
<1> QED
  BY <1>1, TypesAndRanges, PTL

\* What the receiver reads behind an IP header of 4 * ihl bytes.
Behind(data, ihl, icmp) ==
  /\ data \in Seq(Byte) /\ Len(data) = 4 * ihl + Len(icmp) /\ data[1] = 64 + ihl
  /\ \A i \in 1 .. Len(icmp) : data[4 * ihl + i] = icmp[i]

\* Such a header is what the network puts in front.
LEMMA ReceivedBehind ==
  ASSUME NEW ihl \in 5 .. 15, NEW icmp \in Seq(Byte)
  PROVE  Behind(Received(ihl, icmp), ihl, icmp)
<1> DEFINE first == <<64 + ihl>>
           seven == Zeros(7)
           ttl == <<55>>
           rest == Zeros(4 * ihl - 9)
           one == first \o seven
           two == one \o ttl
           header == two \o rest
           data == header \o icmp
<1>1. first \in Seq(Byte) /\ Len(first) = 1 /\ first[1] = 64 + ihl
  BY DEF Byte
<1>2. /\ seven \in Seq(Byte) /\ Len(seven) = 7
      /\ rest \in Seq(Byte) /\ Len(rest) = 4 * ihl - 9
      /\ ttl \in Seq(Byte) /\ Len(ttl) = 1
  <2>1. 7 \in Nat /\ 4 * ihl - 9 \in Nat
    OBVIOUS
  <2>2. ttl \in Seq(Byte) /\ Len(ttl) = 1
    BY DEF Byte
  <2> QED
    BY <2>1, <2>2, ZerosAre
<1>3. data = Received(ihl, icmp)
  BY DEF Received
<1> HIDE DEF first, seven, ttl, rest
<1>4. one \in Seq(Byte) /\ Len(one) = 8 /\ one[1] = first[1]
  <2>1. /\ one \in Seq(Byte) /\ Len(one) = Len(first) + Len(seven)
        /\ \A i \in 1 .. Len(first) : one[i] = first[i]
    BY <1>1, <1>2, Joined, Zenon
  <2> HIDE DEF one
  <2> QED
    BY <1>1, <1>2, <2>1
<1> HIDE DEF one
<1>5. two \in Seq(Byte) /\ Len(two) = 9 /\ two[1] = one[1]
  <2>1. /\ two \in Seq(Byte) /\ Len(two) = Len(one) + Len(ttl)
        /\ \A i \in 1 .. Len(one) : two[i] = one[i]
    BY <1>2, <1>4, Joined, Zenon
  <2> HIDE DEF two
  <2> QED
    BY <1>2, <1>4, <2>1
<1> HIDE DEF two
<1>6. header \in Seq(Byte) /\ Len(header) = 4 * ihl /\ header[1] = two[1]
  <2>1. /\ header \in Seq(Byte) /\ Len(header) = Len(two) + Len(rest)
        /\ \A i \in 1 .. Len(two) : header[i] = two[i]
    BY <1>2, <1>5, Joined, Zenon
  <2> HIDE DEF header
  <2> QED
    BY <1>2, <1>5, <2>1
<1> HIDE DEF header
<1>7. /\ data \in Seq(Byte) /\ Len(data) = Len(header) + Len(icmp)
      /\ \A i \in 1 .. Len(header) : data[i] = header[i]
      /\ \A i \in 1 .. Len(icmp) : data[Len(header) + i] = icmp[i]
  BY <1>6, Joined, Zenon
<1> HIDE DEF data
<1>8. 1 \in 1 .. 4 * ihl
  OBVIOUS
<1>9. data[1] = 64 + ihl
  BY <1>1, <1>4, <1>5, <1>6, <1>7, <1>8
<1>10. Behind(data, ihl, icmp)
  BY <1>6, <1>7, <1>9 DEF Behind
<1> QED
  BY <1>3, <1>10, Zenon

\* What unpack_header makes of it: the fields, and a payload that is the rest.
Reads(data, icmp) ==
  /\ Unpackable(data)
  /\ UnpackHeader(data).rtp = icmp[1]
  /\ UnpackHeader(data).rid = FromNe(icmp, 5) /\ UnpackHeader(data).rsq = FromNe(icmp, 7)
  /\ Payload(data) \in Seq(Byte) /\ Len(Payload(data)) = Len(icmp) - 8
  /\ \A i \in 1 .. Len(icmp) - 8 : Payload(data)[i] = icmp[8 + i]

LEMMA BehindReads ==
  ASSUME NEW ihl \in 5 .. 15, NEW icmp \in Seq(Byte), Len(icmp) >= 8,
         NEW data, Behind(data, ihl, icmp)
  PROVE  Reads(data, icmp)
<1> DEFINE len == Len(icmp)
           hlen == 4 * ihl
           from == hlen + 9
           fields == SubSeq(data, hlen + 1, hlen + 8)
           payload == SubSeq(data, from, Len(data))
<1>1. len \in Nat /\ len >= 8 /\ hlen \in Nat /\ hlen >= 20
  BY LenProperties
<1>2. /\ data \in Seq(Byte) /\ Len(data) = hlen + len /\ data[1] = 64 + ihl
      /\ \A i \in 1 .. len : data[hlen + i] = icmp[i]
  BY DEF Behind
<1>3. IpHeaderLength(data) = hlen
  <2>1. (64 + ihl) % 16 = ihl
    BY Z3
  <2> QED
    BY <1>2, <2>1 DEF IpHeaderLength
<1> HIDE DEF hlen
<1>4. Unpackable(data)
  BY <1>1, <1>2, <1>3 DEF Unpackable, IP_HDR_MIN
<1>5. \A i \in 1 .. Len(data) : data[i] \in Byte
  BY <1>2, ElementOfSeq
<1>6. \A i \in 1 .. 8 : fields[i] = icmp[i]
  <2>1. hlen + 1 \in Int /\ hlen + 8 \in Int /\ \A i \in hlen + 1 .. hlen + 8 : data[i] \in Byte
    BY <1>1, <1>2, <1>5
  <2>2. \A i \in 1 .. (hlen + 8) - (hlen + 1) + 1 : fields[i] = data[hlen + 1 + i - 1]
    BY <2>1, SubSeqProperties
  <2> HIDE DEF fields
  <2>3. ASSUME NEW i \in 1 .. 8 PROVE fields[i] = icmp[i]
    <3>1. /\ i \in 1 .. (hlen + 8) - (hlen + 1) + 1 /\ hlen + 1 + i - 1 = hlen + i
          /\ i \in 1 .. len
      BY <1>1
    <3> QED
      BY <1>2, <2>2, <3>1, Zenon
  <2> QED
    BY <2>3
<1>7. /\ UnpackHeader(data).len = hlen + 8 /\ UnpackHeader(data).rtp = fields[1]
      /\ UnpackHeader(data).rid = FromNe(fields, 5) /\ UnpackHeader(data).rsq = FromNe(fields, 7)
  BY <1>3 DEF UnpackHeader
<1> HIDE DEF fields
<1>8. payload \in Seq(Byte) /\ Len(payload) = len - 8 /\ \A i \in 1 .. len - 8 : payload[i] = icmp[8 + i]
  <2>1. from \in Int /\ Len(data) \in Int /\ \A i \in from .. Len(data) : data[i] \in Byte
    BY <1>1, <1>2, <1>5
  <2>2. /\ payload \in Seq(Byte)
        /\ Len(payload) = IF from <= Len(data) THEN Len(data) - from + 1 ELSE 0
        /\ \A i \in 1 .. Len(data) - from + 1 : payload[i] = data[from + i - 1]
    BY <2>1, SubSeqProperties
  <2> HIDE DEF payload
  <2>3. Len(payload) = len - 8
    <3>1. Len(data) = hlen + len
      BY <1>2
    <3> DEFINE all == Len(data)
    <3>2. Len(payload) = IF from <= all THEN all - from + 1 ELSE 0
      BY <2>2
    <3> HIDE DEF len, all
    <3>3. all = hlen + len
      BY <3>1 DEF all
    <3> QED
      BY <1>1, <3>2, <3>3
  <2>4. ASSUME NEW i \in 1 .. len - 8 PROVE payload[i] = icmp[8 + i]
    <3>1. 8 + i \in 1 .. len /\ from + i - 1 = hlen + (8 + i) /\ i \in 1 .. Len(data) - from + 1
      BY <1>1, <1>2
    <3> QED
      BY <1>2, <2>2, <3>1
  <2> QED
    BY <2>2, <2>3, <2>4
<1>9. Payload(data) = payload
  <2>1. UnpackHeader(data).len + 1 = from
    BY <1>1, <1>7
  <2> QED
    BY <2>1 DEF Payload
<1> HIDE DEF payload
<1>10. fields[1] = icmp[1] /\ FromNe(fields, 5) = FromNe(icmp, 5) /\ FromNe(fields, 7) = FromNe(icmp, 7)
  BY <1>6 DEF FromNe
<1> QED
  BY <1>4, <1>7, <1>8, <1>9, <1>10 DEF Reads

\* What an answer and the receiver rely on: the fields of a request, which is at least
\* 16 bytes long.
IsRequest(r, id, seq) ==
  /\ r \in Seq(Byte) /\ Len(r) >= 16
  /\ r[1] = 8 /\ FromNe(r, 5) = id /\ FromNe(r, 7) = seq

LEMMA BuiltRequest ==
  ASSUME NEW id \in Word, NEW seq \in Word, NEW minsz \in Nat,
         NEW ts \in Seq(Byte), Len(ts) = 8
  PROVE  IsRequest(BuildEcho(id, seq, minsz, ts), id, seq)
<1> DEFINE pad == Padding(minsz, ts)
           bare == Packet(0, id, seq, ts, pad)
           c == checksum(bare)
           r == Packet(c, id, seq, ts, pad)
<1>1. pad \in Nat
  BY DEF Padding
<1>2. BuildEcho(id, seq, minsz, ts) = r
  BY RequestIs, Zenon DEF Checked
<1>3. 0 \in Word
  BY DEF Word
<1> HIDE DEF pad
<1>4. HasFields(bare, 0, id, seq, ts, pad)
  BY <1>1, <1>3, PacketFields, Zenon
<1>5. WordSum(bare) = Total(LowFirst(bare))
  BY DEF WordSum, LowFirst
<1> HIDE DEF bare
<1>6. c \in Word
  <2>1. bare \in Seq(Byte) /\ Len(bare) >= 1
    BY <1>1, <1>4 DEF HasFields
  <2>2. Total(LowFirst(bare)) \in Nat
    BY <2>1, SumsOfBytes DEF Summed
  <2>3. WordSum(bare) \in Nat
    BY <1>5, <2>2, Zenon
  <2> QED
    BY <2>3, ChecksumIsWord
<1> HIDE DEF c
<1>7. HasFields(r, c, id, seq, ts, pad)
  BY <1>1, <1>6, PacketFields, Zenon
<1> HIDE DEF r
<1>8. FromNe(r, 5) = id /\ FromNe(r, 7) = seq
  <2>1. /\ NeBytes(id)[1] + 256 * NeBytes(id)[2] = id
        /\ NeBytes(seq)[1] + 256 * NeBytes(seq)[2] = seq
    BY BytesOfWord
  <2> QED
    BY <1>7, <2>1 DEF HasFields, FromNe
<1>9. r \in Seq(Byte) /\ Len(r) >= 16 /\ r[1] = 8
  BY <1>1, <1>7 DEF HasFields
<1>10. IsRequest(r, id, seq)
  BY <1>8, <1>9, Zenon DEF IsRequest
<1> QED
  BY <1>2, <1>10, Zenon

\* A request is nothing to the receiver, however it comes back.
LEMMA RequestTaken ==
  ASSUME NEW r, NEW id, NEW seq, IsRequest(r, id, seq), NEW ihl \in 5 .. 15, NEW a, NEW b
  PROVE  Taken(Received(ihl, r), a, b) = NotOurs
<1> DEFINE data == Received(ihl, r)
<1>1. r \in Seq(Byte) /\ Len(r) >= 16 /\ Len(r) >= 8 /\ r[1] = 8
  <2>1. Len(r) \in Nat
    BY LenProperties DEF IsRequest
  <2> QED
    BY <2>1 DEF IsRequest
<1>2. Reads(data, r)
  BY <1>1, ReceivedBehind, BehindReads, Zenon
<1> HIDE DEF data
<1>3. Unpackable(data) /\ UnpackHeader(data).rtp = 8
  BY <1>1, <1>2 DEF Reads
<1>4. Taken(data, a, b) = NotOurs
  BY <1>3 DEF Taken, ICMP_ECHOREPLY, ICMP_TIME_EXCEEDED, ICMP_UNREACH
<1> QED
  BY <1>4, Zenon DEF data

\* The reply to a request is taken for the identifier in it.
LEMMA ReplyTaken ==
  ASSUME NEW r, NEW id, NEW seq, IsRequest(r, id, seq), NEW ihl \in 5 .. 15,
         NEW a, NEW b, id \in {a, b}
  PROVE  Taken(Received(ihl, Reply(r)), a, b) = [kind |-> IF id = a THEN "ping" ELSE "echo", rsq |-> seq]
<1> DEFINE reply == Reply(r)
           data == Received(ihl, reply)
<1>1. r \in Seq(Byte) /\ Len(r) \in Nat /\ Len(r) >= 16 /\ FromNe(r, 5) = id /\ FromNe(r, 7) = seq
  BY LenProperties DEF IsRequest
<1>2. reply = [r EXCEPT ![1] = 0]
  BY DEF Reply, ICMP_ECHOREPLY
<1> HIDE DEF reply
<1>3. /\ reply \in Seq(Byte) /\ Len(reply) = Len(r)
      /\ \A j \in 1 .. Len(r) : reply[j] = IF j = 1 THEN 0 ELSE r[j]
  <2>1. 1 \in 1 .. Len(r) /\ 0 \in Byte
    BY <1>1 DEF Byte
  <2> QED
    BY <1>1, <1>2, <2>1, ExceptSeq
<1>4. reply[1] = 0 /\ FromNe(reply, 5) = id /\ FromNe(reply, 7) = seq /\ Len(reply) >= 8
  BY <1>1, <1>3 DEF FromNe
<1>5. Reads(data, reply)
  BY <1>3, <1>4, ReceivedBehind, BehindReads, Zenon
<1> HIDE DEF data
<1>6. /\ Unpackable(data) /\ UnpackHeader(data).rtp = 0
      /\ UnpackHeader(data).rid = id /\ UnpackHeader(data).rsq = seq
  BY <1>4, <1>5 DEF Reads
<1>7. Stamped(data)
  BY <1>1, <1>3, <1>5 DEF Reads, Stamped
<1>8. Taken(data, a, b) = [kind |-> IF id = a THEN "ping" ELSE "echo", rsq |-> seq]
  <2>1. Unpackable(data) /\ UnpackHeader(data).rtp = ICMP_ECHOREPLY
    BY <1>6 DEF ICMP_ECHOREPLY
  <2>2. /\ ICMP_ECHOREPLY # ICMP_TIME_EXCEEDED /\ ICMP_ECHOREPLY # ICMP_UNREACH
    BY DEF ICMP_ECHOREPLY, ICMP_TIME_EXCEEDED, ICMP_UNREACH
  <2>3. Taken(data, a, b) =
          IF Stamped(data) /\ UnpackHeader(data).rid \in {a, b}
          THEN [kind |-> IF UnpackHeader(data).rid = a THEN "ping" ELSE "echo",
                rsq |-> UnpackHeader(data).rsq]
          ELSE NotOurs
    BY <2>1, <2>2 DEF Taken
  <2> QED
    BY <1>6, <1>7, <2>3
<1> QED
  BY <1>8, Zenon DEF data, reply

\* An error message is 8 bytes and what it quotes: an IP header, and the request up to
\* its n-th byte.
Quotes(error, type, quoted) ==
  /\ error \in Seq(Byte) /\ error[1] = type /\ Len(error) = 8 + Len(quoted)
  /\ \A i \in 1 .. Len(quoted) : error[8 + i] = quoted[i]

LEMMA ErrorQuotes ==
  ASSUME NEW type \in {ICMP_TIME_EXCEEDED, ICMP_UNREACH}, NEW r, NEW n,
         Received(5, SubSeq(r, 1, n)) \in Seq(Byte)
  PROVE  Quotes(Error(type, r, n), type, Received(5, SubSeq(r, 1, n)))
<1> DEFINE quoted == Received(5, SubSeq(r, 1, n))
           first == <<type, 0>>
           zeros == Zeros(ICMP_HDR_LEN - 2)
           head == first \o zeros
           error == head \o quoted
<1>1. first \in Seq(Byte) /\ Len(first) = 2 /\ first[1] = type
  BY DEF Byte, ICMP_TIME_EXCEEDED, ICMP_UNREACH
<1>2. zeros \in Seq(Byte) /\ Len(zeros) = 6
  <2>1. 6 \in Nat /\ ICMP_HDR_LEN - 2 = 6
    OBVIOUS
  <2> QED
    BY <2>1, ZerosAre
<1>3. error = Error(type, r, n)
  BY DEF Error
<1> HIDE DEF first, zeros, quoted
<1>4. head \in Seq(Byte) /\ Len(head) = 8 /\ head[1] = type
  <2>1. /\ head \in Seq(Byte) /\ Len(head) = Len(first) + Len(zeros)
        /\ \A i \in 1 .. Len(first) : head[i] = first[i]
    BY <1>1, <1>2, Joined, Zenon
  <2> HIDE DEF head
  <2> QED
    BY <1>1, <1>2, <2>1
<1> HIDE DEF head
<1>5. /\ error \in Seq(Byte) /\ Len(error) = Len(head) + Len(quoted)
      /\ \A i \in 1 .. Len(head) : error[i] = head[i]
      /\ \A i \in 1 .. Len(quoted) : error[Len(head) + i] = quoted[i]
  <2>1. quoted \in Seq(Byte)
    BY DEF quoted
  <2> QED
    BY <1>4, <2>1, Joined, Zenon
<1> HIDE DEF error
<1>6. Quotes(error, type, quoted)
  BY <1>4, <1>5 DEF Quotes
<1> QED
  BY <1>3, <1>6, Zenon DEF quoted

\* An error about a request that was sent with the identifier b is taken for what it
\* is, if a time exceeded quotes the time stamp too; any other is nothing.
LEMMA ErrorTaken ==
  ASSUME NEW r, NEW id, NEW seq, IsRequest(r, id, seq), NEW ihl \in 5 .. 15,
         NEW type \in {ICMP_TIME_EXCEEDED, ICMP_UNREACH}, NEW n \in 8 .. Len(r), NEW a, NEW b
  PROVE  Taken(Received(ihl, Error(type, r, n)), a, b) =
           IF id = b /\ (type = ICMP_TIME_EXCEEDED => n >= 16)
           THEN [kind |-> IF type = ICMP_TIME_EXCEEDED THEN "exceeded" ELSE "unreachable",
                 rsq |-> seq]
           ELSE NotOurs
<1> DEFINE part == SubSeq(r, 1, n)
           quoted == Received(5, part)
           error == Error(type, r, n)
           data == Received(ihl, error)
           quote == Payload(data)
<1>1. r \in Seq(Byte) /\ Len(r) \in Nat /\ FromNe(r, 5) = id /\ FromNe(r, 7) = seq
  BY LenProperties DEF IsRequest
<1>2. part \in Seq(Byte) /\ Len(part) = n /\ \A i \in 1 .. n : part[i] = r[i]
  <2>1. 1 \in Int /\ n \in Int /\ \A i \in 1 .. n : r[i] \in Byte
    BY <1>1, ElementOfSeq
  <2>2. /\ part \in Seq(Byte) /\ Len(part) = IF 1 <= n THEN n - 1 + 1 ELSE 0
        /\ \A i \in 1 .. n - 1 + 1 : part[i] = r[1 + i - 1]
    BY <2>1, SubSeqProperties
  <2> HIDE DEF part
  <2>3. n - 1 + 1 = n /\ 1 <= n /\ \A i \in 1 .. n : 1 + i - 1 = i
    BY <1>1
  <2> QED
    BY <2>2, <2>3
<1> HIDE DEF part
<1>3. FromNe(part, 5) = id /\ FromNe(part, 7) = seq /\ Len(part) >= 8
  BY <1>1, <1>2 DEF FromNe
<1>4. 5 \in 5 .. 15
  OBVIOUS
<1>5. Behind(quoted, 5, part)
  BY <1>2, <1>4, ReceivedBehind, Zenon
<1>6. quoted \in Seq(Byte) /\ Len(quoted) = 20 + n
  <2> HIDE DEF quoted
  <2> QED
    BY <1>2, <1>5 DEF Behind
<1>7. Quotes(error, type, quoted)
  BY <1>6, ErrorQuotes, Zenon DEF part
<1> HIDE DEF quoted, error
<1>8. error \in Seq(Byte) /\ error[1] = type /\ Len(error) = 28 + n /\ Len(error) >= 8
  BY <1>6, <1>7 DEF Quotes
<1>9. Reads(data, error)
  BY <1>8, ReceivedBehind, BehindReads, Zenon
<1> HIDE DEF data
<1>10. quote \in Seq(Byte) /\ Len(quote) = Len(quoted) /\ \A i \in 1 .. Len(quoted) : quote[i] = quoted[i]
  <2>1. Len(error) - 8 = Len(quoted)
    BY <1>6, <1>8
  <2> QED
    BY <1>7, <1>9, <2>1, Zenon DEF Reads, Quotes
<1>11. Behind(quote, 5, part)
  <2> HIDE DEF quote
  <2>1. 1 \in 1 .. Len(quoted) /\ \A i \in 1 .. n : 4 * 5 + i \in 1 .. Len(quoted)
    BY <1>6
  <2> QED
    BY <1>2, <1>5, <1>10, <2>1 DEF Behind
<1>12. Reads(quote, part)
  BY <1>2, <1>3, <1>4, <1>11, BehindReads, Zenon
<1>13. /\ Unpackable(data) /\ UnpackHeader(data).rtp = type
       /\ Unpackable(quote) /\ UnpackHeader(quote).rid = id /\ UnpackHeader(quote).rsq = seq
  BY <1>3, <1>8, <1>9, <1>12 DEF Reads
<1>14. Stamped(quote) <=> n >= 16
  <2>1. Len(Payload(quote)) = n - 8
    BY <1>2, <1>12 DEF Reads
  <2> QED
    BY <2>1 DEF Stamped
<1>15. ICMP_TIME_EXCEEDED # ICMP_ECHOREPLY /\ ICMP_UNREACH # ICMP_ECHOREPLY /\ ICMP_UNREACH # ICMP_TIME_EXCEEDED
  BY DEF ICMP_ECHOREPLY, ICMP_TIME_EXCEEDED, ICMP_UNREACH
<1> DEFINE kind == IF type = ICMP_TIME_EXCEEDED THEN "exceeded" ELSE "unreachable"
<1>16. Taken(data, a, b) = Quoting(data, b, kind)
  <2>1. CASE type = ICMP_TIME_EXCEEDED
    BY <1>13, <1>15, <2>1 DEF Taken
  <2>2. CASE type = ICMP_UNREACH
    BY <1>13, <1>15, <2>2 DEF Taken
  <2> QED
    BY <2>1, <2>2
<1>17. kind = "exceeded" <=> type = ICMP_TIME_EXCEEDED
  OBVIOUS
<1> HIDE DEF kind
<1>18. Quoting(data, b, kind) =
         IF id = b /\ (type = ICMP_TIME_EXCEEDED => n >= 16)
         THEN [kind |-> kind, rsq |-> seq] ELSE NotOurs
  <2>1. Quoting(data, b, kind) =
          IF Unpackable(quote) /\ UnpackHeader(quote).rid = b /\ (kind = "exceeded" => Stamped(quote))
          THEN [kind |-> kind, rsq |-> UnpackHeader(quote).rsq] ELSE NotOurs
    BY DEF Quoting
  <2> HIDE DEF quote
  <2> QED
    BY <1>13, <1>14, <1>17, <2>1
<1> QED
  BY <1>16, <1>18, Zenon DEF data, error, kind

\* For every process number, packet size, command line and file, the receiver of a
\* started program takes the answers to its packets for what they are, and nothing else.
THEOREM AnswersAreKnown == Spec => []AnswersAreRecognised
<1>1. StartupTypeOK => AnswersAreRecognised
  <2> SUFFICES ASSUME StartupTypeOK,
                      NEW seq \in Sequences16, NEW ihl \in {5, 6, 15}
               PROVE  LET ping == Request(pingid, seq, Zeros(TS_LEN))
                          probe == Request(traceid, seq, Zeros(TS_LEN))
                          TakenFor(icmp) == Taken(Received(ihl, icmp), pingid, traceid)
                          Answers(icmp, kind) == TakenFor(icmp) = [kind |-> kind, rsq |-> seq]
                          Nothing(icmp) == TakenFor(icmp) = NotOurs
                      IN  /\ Answers(Reply(ping), "ping") /\ Answers(Reply(probe), "echo")
                          /\ Answers(Error(ICMP_TIME_EXCEEDED, probe, Len(probe)), "exceeded")
                          /\ Nothing(Error(ICMP_TIME_EXCEEDED, probe, 8))
                          /\ Answers(Error(ICMP_UNREACH, probe, 8), "unreachable")
                          /\ \A type \in {ICMP_TIME_EXCEEDED, ICMP_UNREACH} :
                               Nothing(Error(type, ping, Len(ping)))
                          /\ Nothing(ping) /\ Nothing(probe)
    BY DEF AnswersAreRecognised
  <2> DEFINE ping == Request(pingid, seq, Zeros(TS_LEN))
             probe == Request(traceid, seq, Zeros(TS_LEN))
             Took(icmp) == Taken(Received(ihl, icmp), pingid, traceid)
  <2>1. pingid \in Word /\ traceid \in Word /\ pingid # traceid /\ seq \in Word
    <3>1. pid \in Pids
      BY DEF StartupTypeOK
    <3> QED
      BY <3>1, Identifiers, SequencesAndStamps
  <2>2. opts["m"] \in Nat
    BY SizeAssumption DEF StartupTypeOK
  <2>3. IsRequest(ping, pingid, seq) /\ IsRequest(probe, traceid, seq)
    BY <2>1, <2>2, SequencesAndStamps, BuiltRequest DEF Request
  <2>4. ihl \in 5 .. 15
    OBVIOUS
  <2> HIDE DEF ping, probe
  <2>5. 8 \in 8 .. Len(probe) /\ Len(probe) \in 8 .. Len(probe) /\ Len(probe) >= 16
        /\ Len(ping) \in 8 .. Len(ping) /\ ~(8 >= 16)
    <3>1. Len(ping) \in Nat /\ Len(probe) \in Nat
      BY <2>3, LenProperties DEF IsRequest
    <3> QED
      BY <2>3, <3>1 DEF IsRequest
  <2>6. ICMP_UNREACH # ICMP_TIME_EXCEEDED
    BY DEF ICMP_UNREACH, ICMP_TIME_EXCEEDED
  <2>7. Took(ping) = NotOurs /\ Took(probe) = NotOurs
    BY <2>3, <2>4, RequestTaken, Zenon
  <2>8. Took(Reply(ping)) = [kind |-> "ping", rsq |-> seq]
    BY <2>3, <2>4, ReplyTaken
  <2>9. Took(Reply(probe)) = [kind |-> "echo", rsq |-> seq]
    BY <2>1, <2>3, <2>4, ReplyTaken
  <2>10. Took(Error(ICMP_TIME_EXCEEDED, probe, Len(probe))) = [kind |-> "exceeded", rsq |-> seq]
    BY <2>3, <2>4, <2>5, ErrorTaken
  <2>11. Took(Error(ICMP_TIME_EXCEEDED, probe, 8)) = NotOurs
    BY <2>3, <2>4, <2>5, ErrorTaken
  <2>12. Took(Error(ICMP_UNREACH, probe, 8)) = [kind |-> "unreachable", rsq |-> seq]
    BY <2>3, <2>4, <2>5, <2>6, ErrorTaken
  <2>13. ASSUME NEW type \in {ICMP_TIME_EXCEEDED, ICMP_UNREACH}
         PROVE  Took(Error(type, ping, Len(ping))) = NotOurs
    BY <2>1, <2>3, <2>4, <2>5, ErrorTaken
  <2> QED
    BY <2>7, <2>8, <2>9, <2>10, <2>11, <2>12, <2>13, Zenon DEF ping, probe
<1> QED
  BY <1>1, TypesAndRanges, PTL

===============================================================================
