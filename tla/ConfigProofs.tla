---------------------------- MODULE ConfigProofs ----------------------------
(***************************************************************************)
(* Proofs about Config, for any texts, numbers, durations and files and    *)
(* any length of the command line.                                         *)
(***************************************************************************)
EXTENDS Config, TLAPS

USE DEF vars, inputs

-----------------------------------------------------------------------------
(* What a behaviour starts from, and does not change *)

\* Every source that says something says something other than Unset.
SourcesInv ==
    /\ O.default # Unset
    /\ args # <<>> => args[Len(args)].value # Unset
    /\ env[1] # Unset /\ (Len(env) = 2 => env[2] # Unset)
    /\ configEnv \in Paths \union {Empty}

\* The file that is opened, if any, is one of the files.
FilesInv ==
    /\ File \in Paths \union {Empty}
    /\ files \in [Paths -> Files(O.kind)]

\* The defaults of both tables are values, and no option is without a variable.
LEMMA OptionsAreGood ==
    ASSUME NEW p \in DOMAIN Program, NEW o \in DOMAIN Program[p]
    PROVE  Program[p][o].default # Unset /\ Len(Program[p][o].env) \in {1, 2}
<1>1. Unset \notin {DefaultText, Empty, 300, 10, 2, 3}
  BY UnsetAssumption
<1>2. Unset # TRUE
  BY UnsetAssumption, Zenon
<1>3. CASE p = "server"
  <2>1. Program[p] = Server /\ o \in DOMAIN Server
    BY <1>3 DEF Program
  <2>2. CASE o = "restore"
    <3>1. PICK d : d = TRUE
      OBVIOUS
    <3>2. Server[o] = Option("boolean", {"r"}, <<"RESTORE">>, d)
      BY <2>2, <3>1 DEF Server
    <3>3. Server[o].default = d /\ Len(Server[o].env) = 1
      BY <3>2 DEF Option
    <3>4. d # Unset
      BY <1>2, <3>1, Zenon
    <3> QED BY <2>1, <3>3, <3>4
  <2>3. CASE o # "restore"
    BY <1>1, <2>1, <2>3 DEF Server, Option
  <2> QED BY <2>2, <2>3
<1>4. CASE p = "agent"
  <2>1. Program[p] = Agent /\ o \in DOMAIN Agent
    BY <1>4 DEF Program
  <2> QED BY <1>1, <2>1 DEF Agent, Option
<1> QED BY <1>3, <1>4 DEF Program

\* The last mention of a flag carries one of the values it may have.
LEMMA LastIsOneOf ==
    ASSUME NEW flags, NEW S, NEW line \in CommandLine(flags, S), line # <<>>
    PROVE  line[Len(line)].value \in S
<1>1. PICK n \in 0..MaxArgs : line \in [1..n -> [flag : flags, value : S]]
  BY DEF CommandLine
<1> DEFINE T == [flag : flags, value : S]
<1>2. n \in Nat /\ line \in [1..n -> T]
  BY <1>1, MaxArgsAssumption
<1>3. Len(line) = n /\ line \in Seq(T)
  <2> HIDE DEF T
  <2> QED BY <1>2
<1>4. n \in 1..n
  BY <1>2, <1>3
<1> QED BY <1>1, <1>3, <1>4

LEMMA ValuesAreSet == ASSUME NEW kind PROVE Unset \notin Values(kind) \union InEnv(kind)
BY UnsetAssumption, NumbersAssumption DEF Values, InEnv

LEMMA SourcesInit == Init => SourcesInv /\ FilesInv
<1> SUFFICES ASSUME Init PROVE SourcesInv /\ FilesInv
  OBVIOUS
<1>1. O.default # Unset /\ Len(O.env) \in {1, 2}
  BY OptionsAreGood DEF Init, O
<1>2. args # <<>> => args[Len(args)].value # Unset
  BY LastIsOneOf, ValuesAreSet DEF Init
<1>3. env \in Seq(InEnv(O.kind)) /\ Len(env) = Len(O.env)
  BY <1>1 DEF Init
<1>4. env[1] # Unset /\ (Len(env) = 2 => env[2] # Unset)
  BY <1>1, <1>3, ValuesAreSet
<1>5. File \in Paths \union {Empty}
  <2>1. configArgs # <<>> => configArgs[Len(configArgs)].value \in Paths \union {Empty}
    BY LastIsOneOf DEF Init
  <2> QED BY <2>1 DEF Init, File, LastOf
<1> QED BY <1>1, <1>2, <1>4, <1>5 DEF Init, SourcesInv, FilesInv

-----------------------------------------------------------------------------
(* Stage by stage *)

\* The strongest of file, flag and default.
Filed ==
    IF args # <<>> THEN LastOf(args, Unset) ELSE IF Said[2] # Unset THEN Said[2] ELSE O.default

FileRead == File # Empty => files[File].state = "decoded" /\ Said[2] # Garbled

StageInv ==
    /\ stage \in {"flags", "file", "env", "main", "running", "panicked", "refused"}
    /\ stage = "flags" => value = O.default /\ configPath = Empty
    /\ stage = "file" => value = LastOf(args, O.default) /\ configPath = LastOf(configArgs, Empty)
    /\ stage = "env" => value = Filed /\ FileRead
    /\ Resolved => /\ value = IF Len(env) = 2 THEN GetEnv(env[2], GetEnv(env[1], Filed))
                              ELSE GetEnv(env[1], Filed)
                   /\ FileRead

IInv == SourcesInv /\ FilesInv /\ StageInv

LEMMA InvInit == Init => IInv
BY SourcesInit DEF Init, IInv, StageInv, Resolved

LEMMA SourcesStay == ASSUME UNCHANGED inputs PROVE /\ SourcesInv => SourcesInv'
                                                   /\ FilesInv => FilesInv'
                                                   /\ Filed' = Filed /\ FileRead' = FileRead
                                                   /\ O' = O
BY DEF SourcesInv, FilesInv, Filed, FileRead, O, Said, File, LastOf, GetEnv, FromFile

LEMMA InvNext == IInv /\ [Next]_vars => IInv'
<1> SUFFICES ASSUME IInv, [Next]_vars PROVE IInv'
  OBVIOUS
<1>0. UNCHANGED inputs
  BY DEF Next, ParseFlags, LoadFile, ReadEnv, Launch
<1>1. SourcesInv' /\ FilesInv' /\ Filed' = Filed /\ FileRead' = FileRead /\ O' = O
  BY <1>0, SourcesStay DEF IInv
<1>2. CASE ParseFlags
  <2>1. value' = LastOf(args, O.default) /\ configPath' = LastOf(configArgs, Empty) /\ stage' = "file"
    BY <1>2 DEF ParseFlags, IInv, StageInv
  <2> QED BY <1>0, <1>1, <2>1 DEF IInv, StageInv, Resolved, LastOf
<1>3. CASE LoadFile
  <2>1. value = LastOf(args, O.default) /\ GetEnv(configEnv, configPath) = File
    BY <1>3, StringsAssumption DEF LoadFile, IInv, StageInv, SourcesInv, GetEnv, File
  <2>2. CASE stage' = "refused"
    BY <1>1, <2>2 DEF IInv, StageInv, Resolved
  <2>3. CASE stage' = "env"
    <3>1. CASE File = Empty
      <4>1. Said[2] = Unset /\ value' = value
        BY <1>3, <2>1, <2>3, <3>1 DEF LoadFile, Said
      <4>2. value' = Filed /\ FileRead
        BY <2>1, <3>1, <4>1 DEF Filed, FileRead, LastOf
      <4> QED BY <1>1, <2>3, <4>2 DEF IInv, StageInv, Resolved
    <3>2. CASE File # Empty
      <4>1. Said[2] = FromFile(O.kind, files[File].says)
        BY <3>2 DEF Said
      <4>2. /\ files[File].state = "decoded" /\ Said[2] # Garbled
            /\ value' = IF Visited \/ Said[2] = Unset THEN value ELSE Said[2]
        BY <1>3, <2>1, <2>3, <3>2, <4>1 DEF LoadFile
      <4>3. value' = Filed /\ FileRead
        BY <2>1, <4>2 DEF Filed, FileRead, LastOf, Visited
      <4> QED BY <1>1, <2>3, <4>3 DEF IInv, StageInv, Resolved
    <3> QED BY <3>1, <3>2
  <2> QED BY <1>3, <2>2, <2>3 DEF LoadFile
<1>4. CASE ReadEnv
  <2>1. value = Filed /\ FileRead
    BY <1>4 DEF ReadEnv, IInv, StageInv
  <2>2. stage' = "main" /\ env' = env
    BY <1>0, <1>4 DEF ReadEnv
  <2>3. value' = IF Len(env) = 2 THEN GetEnv(env[2], GetEnv(env[1], Filed)) ELSE GetEnv(env[1], Filed)
    BY <1>4, <2>1 DEF ReadEnv
  <2> QED BY <1>1, <2>1, <2>2, <2>3 DEF IInv, StageInv, Resolved, GetEnv
<1>5. CASE Launch
  <2>1. /\ Resolved /\ value' = value /\ env' = env
        /\ stage' \in {"running", "panicked"}
    BY <1>0, <1>5 DEF Launch, Resolved
  <2> QED BY <1>1, <2>1 DEF IInv, StageInv, Resolved, GetEnv
<1>6. CASE UNCHANGED vars
  BY <1>0, <1>1, <1>6 DEF IInv, StageInv, Resolved, LastOf, GetEnv
<1> QED BY <1>2, <1>3, <1>4, <1>5, <1>6 DEF Next

LEMMA Inductive == Spec => []IInv
BY InvInit, InvNext, PTL DEF Spec

-----------------------------------------------------------------------------
(* The strongest source *)

\* At least the default says something, so that there is a strongest source.
LEMMA StrongestExists ==
    ASSUME SourcesInv
    PROVE  /\ Strongest \in 1..5 /\ Said[Strongest] # Unset
           /\ \A t \in (Strongest + 1)..5 : Said[t] = Unset
<1> DEFINE P(s) == Said[s] # Unset /\ \A t \in (s + 1)..5 : Said[t] = Unset
<1>1. Said[1] # Unset
  BY DEF Said, SourcesInv
<1>2. \E s \in 1..5 : P(s)
  <2>1. CASE Said[5] # Unset
    BY <2>1
  <2>2. CASE Said[5] = Unset /\ Said[4] # Unset
    <3>1. P(4)
      BY <2>2
    <3> QED BY <3>1
  <2>3. CASE Said[5] = Unset /\ Said[4] = Unset /\ Said[3] # Unset
    <3>1. P(3)
      BY <2>3
    <3> QED BY <3>1
  <2>4. CASE Said[5] = Unset /\ Said[4] = Unset /\ Said[3] = Unset /\ Said[2] # Unset
    <3>1. P(2)
      BY <2>4
    <3> QED BY <3>1
  <2>5. CASE Said[5] = Unset /\ Said[4] = Unset /\ Said[3] = Unset /\ Said[2] = Unset
    <3>1. P(1)
      BY <1>1, <2>5
    <3> QED BY <3>1
  <2> QED BY <2>1, <2>2, <2>3, <2>4, <2>5
<1> QED BY <1>2 DEF Strongest

\* The environment, if it says something, then Filed: the last source that says something.
LEMMA StrongestIsLast ==
    ASSUME SourcesInv
    PROVE  Said[Strongest] = IF Len(env) = 2 THEN GetEnv(env[2], GetEnv(env[1], Filed))
                             ELSE GetEnv(env[1], Filed)
<1> DEFINE s == Strongest
<1>1. /\ s \in 1..5 /\ Said[s] # Unset
      /\ \A t \in (s + 1)..5 : Said[t] = Unset
  BY StrongestExists
<1>2. /\ Said[1] = O.default
      /\ Said[3] = LastOf(args, Unset)
      /\ Said[4] = GetEnv(env[1], Unset)
      /\ Said[5] = IF Len(env) = 2 THEN GetEnv(env[2], Unset) ELSE Unset
  BY DEF Said
<1>3. Filed = IF Said[3] # Unset THEN Said[3] ELSE IF Said[2] # Unset THEN Said[2] ELSE Said[1]
  BY <1>2 DEF Filed, SourcesInv, LastOf
<1>4. Said[s] = IF Said[5] # Unset THEN Said[5] ELSE IF Said[4] # Unset THEN Said[4] ELSE Filed
  <2> HIDE DEF s
  <2>1. s = 1 \/ s = 2 \/ s = 3 \/ s = 4 \/ s = 5
    BY <1>1
  <2> QED BY <1>1, <1>3, <2>1
<1> QED BY <1>2, <1>4 DEF GetEnv, SourcesInv

\* Whatever the sources hold, main gets the value of the strongest one that has
\* one, and never starts from a file that is refused.
THEOREM StrongestSourceWins == Spec => []Precedence
<1>1. IInv => Precedence
  BY StrongestIsLast DEF IInv, StageInv, FileRead, Precedence
<1> QED BY <1>1, Inductive, PTL

LEMMA IntervalTextFields ==
    ASSUME NEW t \in IntervalText
    PROVE  t.n \in Int /\ t.form \in {"empty", "other", "integer", "duration"}
<1>1. CASE t \in [form : {"empty", "other"}, n : {0}]
  BY <1>1
<1>2. CASE t \in [form : {"integer"}, n : Numbers]
  BY <1>2, NumbersAssumption
<1>3. CASE t \in [form : {"duration"}, n : Durations]
  BY <1>3, NumbersAssumption
<1> QED BY <1>1, <1>2, <1>3 DEF IntervalText

\* An interval that the file decides is the one that is written there.
THEOREM FileIntervalsAreExact == Spec => []FileIntervalExact
<1>1. IInv => FileIntervalExact
  <2> SUFFICES ASSUME IInv, Resolved, O.kind = "interval", Strongest = 2
               PROVE  LET t == files[File].says IN
                      /\ t.form \in {"integer", "duration"} /\ t.n >= 0
                      /\ value * (IF t.form = "integer" THEN 1 ELSE 1000) = t.n
    BY DEF FileIntervalExact
  <2> DEFINE t == files[File].says
  <2>1. value = Said[2] /\ Said[2] # Unset /\ FileRead
    BY StrongestExists, StrongestIsLast DEF IInv, StageInv
  <2>2. File # Empty /\ Said[2] = FromFile("interval", t) /\ Said[2] # Garbled
    BY <2>1 DEF Said, FileRead
  <2>3. t # Unset /\ Said[2] = ParseIntervalSeconds(t)
    BY <2>1, <2>2 DEF FromFile
  <2>4. t \in IntervalText
    BY <2>1, <2>2, <2>3 DEF IInv, FilesInv, Files, InFile, FileRead
  <2>5. t.n \in Int /\ t.form \in {"integer", "duration"} /\ t.n >= 0
    <3>1. t.n \in Int /\ t.form \in {"empty", "other", "integer", "duration"}
      BY <2>4, IntervalTextFields
    <3>2. ~(t.form \in {"empty", "other"} \/ t.n < 0)
      BY <2>2, <2>3 DEF ParseIntervalSeconds
    <3> QED BY <3>1, <3>2
  <2>6. CASE t.form = "integer"
    BY <2>1, <2>3, <2>5, <2>6 DEF ParseIntervalSeconds
  <2>7. CASE t.form = "duration"
    <3>1. t.n % 1000 = 0 /\ value = t.n \div 1000
      BY <2>1, <2>2, <2>3, <2>5, <2>7 DEF ParseIntervalSeconds
    <3> QED BY <2>5, <2>7, <3>1
  <2> QED BY <2>5, <2>6, <2>7
<1> QED BY <1>1, Inductive, PTL
=============================================================================
