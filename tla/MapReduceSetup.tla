---------------------------- MODULE MapReduceSetup ----------------------------
(***************************************************************************)
(* What the server of assign6 accepts from its command line and its        *)
(* configuration file (parseArgumentList and what it calls, and            *)
(* startServer): anything else is a MapReduceServerException, which ends   *)
(* the program before a thread or a file has been touched.  The checks     *)
(* have no effect besides, so they are one conjunction, whatever order the *)
(* code makes them in.                                                     *)
(*                                                                         *)
(* An option is a record of a flag and a value, in the order getopt_long   *)
(* gives them, which puts the words that are no options at the end.  A     *)
(* line of the configuration file is a key and a value, both trimmed.      *)
(***************************************************************************)
EXTENDS Integers, FiniteSets

CONSTANTS Empty,          \* the empty string
          Malformed,      \* a string strtol does not read to its end
          Executables,    \* names that access(name, X_OK) is happy with
          Directories     \* names that stat finds to be directories

kMaxPort == 65535         \* USHRT_MAX
kNumWorkerThreads == 32

Keys == {"mapper", "reducer", "num-mappers", "num-reducers",
         "input-path", "intermediate-path", "output-path"}

At(seq, field, name) == {i \in DOMAIN seq : seq[i][field] = name}
LastAt(seq, field, name) ==
    CHOOSE i \in At(seq, field, name) : \A j \in At(seq, field, name) : j <= i
Supplied(seq, field, name) == At(seq, field, name) # {}
ValueOf(seq, field, name) ==
    IF Supplied(seq, field, name) THEN seq[LastAt(seq, field, name)].value ELSE Empty

Option(options, flag) == ValueOf(options, "flag", flag)
Entry(config, key) == ValueOf(config, "key", key)

\* The number a string stands for: strtol reads the empty one as 0.
InRange(value, low, high) ==
    /\ value # Malformed
    /\ LET number == IF value = Empty THEN 0 ELSE value IN number \in low..high

\* A name may follow one that was empty, never one that was not.
GivenOnce(options, flag) ==
    \A i, j \in At(options, "flag", flag) : i < j => options[i].value = Empty

\* confirmRequiredArgumentsArePresent()
RequiredPresent(options) ==
    Empty \notin {Option(options, flag) : flag \in {"mapper", "reducer", "config"}}

\* Every port is looked at, and the last one kept.
OptionsAccepted(options) ==
    /\ \A i \in DOMAIN options :
          /\ options[i].flag \in {"mapper", "reducer", "quiet", "port", "config", "map-only"}
          /\ options[i].flag = "port" => InRange(options[i].value, 1, kMaxPort)
    /\ GivenOnce(options, "mapper") /\ GivenOnce(options, "reducer")
    /\ RequiredPresent(options)

\* Each key once; a relative directory is looked for from the working directory.
ConfigAccepted(config) ==
    /\ \A key \in Keys : Cardinality(At(config, "key", key)) = 1
    /\ \A i \in DOMAIN config : config[i].key \in Keys
    /\ \A key \in {"num-mappers", "num-reducers"} :
          InRange(Entry(config, key), 1, kNumWorkerThreads)
    /\ \A key \in {"input-path", "intermediate-path", "output-path"} :
          Entry(config, key) \in Directories

\* confirmExecutablesAreExecutable()
ExecutablesAccepted(options, config) ==
    \A name \in {"mapper", "reducer"} :
        {Option(options, name), Entry(config, name)} \subseteq Executables

\* The constructor comes to its end.  inv.files gives the configuration files
\* that can be opened, inv.free the ports nothing listens on, inv.port the port
\* computed for the user.
Starts(inv) ==
    LET config == inv.files[Option(inv.options, "config")]
        port == IF Supplied(inv.options, "flag", "port")
                THEN Option(inv.options, "port") ELSE inv.port
    IN /\ OptionsAccepted(inv.options)
       /\ Option(inv.options, "config") \in DOMAIN inv.files
       /\ ConfigAccepted(config)
       /\ ExecutablesAccepted(inv.options, config)
       /\ port \in inv.free

MapOnly(inv) == Supplied(inv.options, "flag", "map-only")

\* The number of bucket files of a chunk, and of the patterns of the reducers.
SplitValue(inv) ==
    LET config == inv.files[Option(inv.options, "config")]
    IN Entry(config, "num-mappers") * Entry(config, "num-reducers")
=============================================================================
