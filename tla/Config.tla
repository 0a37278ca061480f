------------------------------- MODULE Config -------------------------------
(***************************************************************************)
(* How server and agent find the value of an option: parseFlags of         *)
(* cmd/server/flags.go and cmd/agent/flags.go, with the configuration file *)
(* (internal/config/json.go) and the environment (internal/config/env.go), *)
(* up to the point where main uses it. A behaviour follows one option; the *)
(* others can only make the file one that is refused.                      *)
(*                                                                         *)
(* A source says a value, or something abstracted to what the parsers tell *)
(* apart: the empty string, text that does not parse, an integer, a        *)
(* duration in milliseconds. The flag package, which ends the program on a *)
(* flag it cannot parse, is external.                                      *)
(***************************************************************************)
EXTENDS Integers, Sequences

CONSTANTS
    Texts,       \* non-empty strings
    Numbers,     \* integers
    Durations,   \* durations, in milliseconds
    Paths,       \* names of configuration files
    Empty,       \* the empty string
    Garbled,     \* a string that does not parse as what it should be
    Unset,       \* a source that does not mention the option
    DefaultText, \* the default of an option that is text and not empty
    MaxArgs      \* bound: times an option is given on the command line

ASSUME NumbersAssumption == Numbers \subseteq Int /\ Durations \subseteq Int
ASSUME MaxArgsAssumption == MaxArgs \in Nat
ASSUME StringsAssumption ==
    /\ {Empty, Garbled} \intersect (Texts \union Paths \union Int \union BOOLEAN) = {}
    /\ Empty # Garbled
ASSUME UnsetAssumption ==
    Unset \notin Texts \union {Empty, Garbled, DefaultText} \union Int \union BOOLEAN

Option(kind, flags, env, default) ==
    [kind |-> kind, flags |-> flags, env |-> env, default |-> default]

Server ==
    [address        |-> Option("text", {"a"}, <<"ADDRESS">>, DefaultText),
     store_interval |-> Option("interval", {"i"}, <<"STORE_INTERVAL">>, 300),
     store_file     |-> Option("text", {"f"}, <<"STORE_FILE", "FILE_STORAGE_PATH">>, DefaultText),
     restore        |-> Option("boolean", {"r"}, <<"RESTORE">>, TRUE),
     database_dsn   |-> Option("text", {"d"}, <<"DATABASE_DSN">>, Empty),
     key            |-> Option("text", {"k"}, <<"KEY">>, Empty),
     audit_file     |-> Option("text", {"audit-file"}, <<"AUDIT_FILE">>, Empty),
     audit_url      |-> Option("text", {"audit-url"}, <<"AUDIT_URL">>, Empty),
     crypto_key     |-> Option("text", {"crypto-key"}, <<"CRYPTO_KEY">>, Empty),
     trusted_subnet |-> Option("text", {"t"}, <<"TRUSTED_SUBNET">>, Empty),
     grpc_address   |-> Option("text", {"g", "grpc-address"}, <<"GRPC_ADDRESS">>, Empty)]

Agent ==
    [address         |-> Option("text", {"a"}, <<"ADDRESS">>, DefaultText),
     report_interval |-> Option("interval", {"r"}, <<"REPORT_INTERVAL">>, 10),
     poll_interval   |-> Option("interval", {"p"}, <<"POLL_INTERVAL">>, 2),
     key             |-> Option("text", {"k"}, <<"KEY">>, Empty),
     rate_limit      |-> Option("integer", {"l"}, <<"RATE_LIMIT">>, 3),
     crypto_key      |-> Option("text", {"crypto-key"}, <<"CRYPTO_KEY">>, Empty),
     grpc_address    |-> Option("text", {"g", "grpc-address"}, <<"GRPC_ADDRESS">>, Empty)]

Program == [server |-> Server, agent |-> Agent]

VARIABLES
    program, option,  \* the option a behaviour follows
    args, configArgs, \* the command line: what it says of the option and of the file
    env, configEnv,   \* the environment: the same
    files,            \* the configuration files
    stage,            \* where parseFlags and main are
    value,            \* the variable of the option
    configPath        \* flagConfigPath

inputs == <<program, option, args, configArgs, env, configEnv, files>>
vars == <<inputs, stage, value, configPath>>

O == Program[program][option]

Values(kind) ==
    IF kind = "text" THEN Texts \union {Empty}
    ELSE IF kind = "boolean" THEN BOOLEAN
    ELSE Numbers

InEnv(kind) == Values(kind) \union {Empty} \union IF kind = "text" THEN {} ELSE {Garbled}

\* An interval is a string in the file: an integer of seconds or a duration.
IntervalText ==
    [form : {"empty", "other"}, n : {0}] \union [form : {"integer"}, n : Numbers]
        \union [form : {"duration"}, n : Durations]

InFile(kind) == {Unset} \union IF kind = "interval" THEN IntervalText ELSE Values(kind)

\* A file is missing, no JSON of the expected types (or bad in another option), or says something.
Files(kind) ==
    [state : {"missing", "undecodable"}, says : {Unset}] \union [state : {"decoded"}, says : InFile(kind)]

\* Nothing asks whether -c or -config was used: one name stands for both.
CommandLine(flags, S) == UNION {[1..n -> [flag : flags, value : S]] : n \in 0..MaxArgs}

Init ==
    /\ program \in DOMAIN Program
    /\ option \in DOMAIN Program[program]
    /\ args \in CommandLine(O.flags, Values(O.kind))
    /\ configArgs \in CommandLine({"config"}, Paths \union {Empty})
    /\ env \in [1..Len(O.env) -> InEnv(O.kind)]
    /\ configEnv \in Paths \union {Empty}
    /\ files \in [Paths -> Files(O.kind)]
    /\ stage = "flags"
    /\ value = O.default
    /\ configPath = Empty

-----------------------------------------------------------------------------
\* Two flags of one variable: the later on the command line is the one that stays.
LastOf(line, default) == IF line = <<>> THEN default ELSE line[Len(line)].value

ParseFlags ==
    /\ stage = "flags"
    /\ value' = LastOf(args, value)
    /\ configPath' = LastOf(configArgs, configPath)
    /\ stage' = "file"
    /\ UNCHANGED inputs

\* GetEnvAsString, GetEnvAsInt and GetEnvAsBool: what is empty or does not parse
\* is as good as nothing.
GetEnv(raw, default) == IF raw \in {Empty, Garbled} THEN default ELSE raw

\* A duration is cut to whole seconds.
ParseIntervalSeconds_Cuts(t) ==
    IF t.form \in {"empty", "other"} \/ t.n < 0 THEN Garbled
    ELSE IF t.form = "integer" THEN t.n ELSE t.n \div 1000

ParseIntervalSeconds(t) ==
    IF t.form \in {"empty", "other"} \/ t.n < 0 THEN Garbled
    ELSE IF t.form = "integer" THEN t.n
    ELSE IF t.n % 1000 # 0 THEN Garbled ELSE t.n \div 1000

FromFile(kind, says) ==
    IF says # Unset /\ kind = "interval" THEN ParseIntervalSeconds(says) ELSE says

\* One of two flags of a variable is looked for.
Visited_OneName == \E i \in DOMAIN args : args[i].flag # "grpc-address"

Visited == args # <<>>

\* LoadServerFileConfig and LoadAgentFileConfig refuse the file as a whole, and
\* log.Fatalf ends the program; else the file fills what no flag has set.
LoadFile ==
    /\ stage = "file"
    /\ LET path == GetEnv(configEnv, configPath) IN
        IF path = Empty
          THEN stage' = "env" /\ UNCHANGED value
          ELSE LET said == FromFile(O.kind, files[path].says) IN
               IF files[path].state # "decoded" \/ said = Garbled
                 THEN stage' = "refused" /\ UNCHANGED value
                 ELSE /\ stage' = "env"
                      /\ value' = IF Visited \/ said = Unset THEN value ELSE said
    /\ UNCHANGED <<inputs, configPath>>

ReadEnv ==
    /\ stage = "env"
    /\ value' = IF Len(env) = 2 THEN GetEnv(env[2], GetEnv(env[1], value))
                ELSE GetEnv(env[1], value)
    /\ stage' = "main"
    /\ UNCHANGED <<inputs, configPath>>

\* time.NewTicker panics unless its interval is positive, and make when the size
\* of a channel is negative. The server makes no ticker for an interval below one.
Launch ==
    /\ stage = "main"
    /\ stage' = IF \/ program = "agent" /\ O.kind = "interval" /\ value <= 0
                   \/ O.kind = "integer" /\ value < 0
                THEN "panicked" ELSE "running"
    /\ UNCHANGED <<inputs, value, configPath>>

Next == ParseFlags \/ LoadFile \/ ReadEnv \/ Launch

Spec == Init /\ [][Next]_vars

-----------------------------------------------------------------------------
(* Properties *)

\* What each source says of the option, from the weakest to the strongest; the
\* file is the one CONFIG names or, without it, the last of -c and -config.
File == IF configEnv # Empty THEN configEnv ELSE LastOf(configArgs, Empty)

Said ==
    <<O.default,
      IF File = Empty THEN Unset ELSE FromFile(O.kind, files[File].says),
      LastOf(args, Unset),
      GetEnv(env[1], Unset),
      IF Len(env) = 2 THEN GetEnv(env[2], Unset) ELSE Unset>>

Strongest == CHOOSE s \in 1..5 : Said[s] # Unset /\ \A t \in (s + 1)..5 : Said[t] = Unset

Resolved == stage \in {"main", "running", "panicked"}

\* The value main gets is that of the strongest source that has one: environment
\* before flag before file before default, whichever of two flags of a variable
\* was used, FILE_STORAGE_PATH before STORE_FILE (flags_config_test.go 96-176 of
\* the server, 75-118 of the agent); a program never gets there with a file that
\* cannot be read, in any of its options.
Precedence ==
    Resolved => /\ value = Said[Strongest]
                /\ File # Empty => files[File].state = "decoded" /\ Said[2] # Garbled

\* An interval that comes from the file is exactly the time that is written
\* there, a whole number of seconds and not negative. Flags and the environment
\* promise nothing of the kind (json.go 137-163, env.go 18-25).
FileIntervalExact ==
    Resolved /\ O.kind = "interval" /\ Strongest = 2 =>
        LET t == files[File].says IN
        /\ t.form \in {"integer", "duration"} /\ t.n >= 0
        /\ value * (IF t.form = "integer" THEN 1 ELSE 1000) = t.n
=============================================================================
