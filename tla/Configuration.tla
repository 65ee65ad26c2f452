--------------------------- MODULE Configuration ---------------------------
(***************************************************************************)
(* The command line (parse_args of src/src/main.rs) and the configuration  *)
(* (src/src/config.rs): defaults below the user's file, the project's file,*)
(* the environment and the flags.                                          *)
(*                                                                         *)
(* A configuration file is Absent, Unreadable or its entries, one per line *)
(* that is not empty after its comment is cut.  A value is a member of     *)
(* Values; Garbled stands for one that does not parse.  The lookup of the  *)
(* two paths is left out.                                                  *)
(***************************************************************************)
EXTENDS Naturals, Sequences

CONSTANTS
  Values,       \* option values, as text
  Garbled,      \* a text that is no integer and not quoted
  Default,      \* option -> its built-in value
  Allowed,      \* option -> the values in range
  Absent,       \* no file
  Unreadable,   \* a file that cannot be read
  NoValue

Options  == {"log_level", "shutdown_timeout_seconds", "jsonl_max_line_bytes"}
Keys     == Options \cup {"config_version", "secret", "unknown", "no value"}
Modes    == {"version", "daemon", "tui", "doctor", "jsonl"}

Entries == Seq([key : Keys, value : Values \cup {Garbled}])
Errors  == {"config.invalid", "config.secret_forbidden", "config.unsupported_version"}

ASSUME DefaultsAllowed ==
  /\ Allowed \in [Options -> SUBSET Values] /\ \A o \in Options : Default[o] \in Allowed[o]
ASSUME MarksAreMarks ==
  /\ NoValue \notin Values \cup {Garbled} \cup Errors \cup Modes
  /\ Absent \notin Entries /\ Unreadable \notin Entries

Unset == [o \in Options |-> NoValue]

-----------------------------------------------------------------------------
(* read_config: the first line at fault decides the error, then the missing*)
(* version, then a value out of range.                                     *)

LineError(entries, i) ==
  LET key == entries[i].key  value == entries[i].value
  IN  IF key = "secret" THEN "config.secret_forbidden"
      ELSE IF \/ key \in {"no value", "unknown"} \/ value = Garbled
              \/ \E j \in 1 .. i - 1 : entries[j].key = key
             THEN "config.invalid"
      ELSE IF key = "config_version" /\ value # "1" THEN "config.unsupported_version"
      ELSE NoValue

PartialOf(entries) ==
  [o \in Options |->
     IF \E i \in DOMAIN entries : entries[i].key = o
       THEN entries[CHOOSE i \in DOMAIN entries : entries[i].key = o].value ELSE NoValue]

InRange(partial) == \A o \in Options : partial[o] # NoValue => partial[o] \in Allowed[o]

FileError(entries) ==
  LET faulty == {i \in DOMAIN entries : LineError(entries, i) # NoValue}
  IN  IF faulty # {}
        THEN LineError(entries, CHOOSE i \in faulty : \A j \in faulty : i <= j)
        ELSE IF (\A i \in DOMAIN entries : entries[i].key # "config_version")
                \/ ~InRange(PartialOf(entries))
               THEN "config.invalid" ELSE NoValue

ReadConfig(file) ==
  [error   |-> IF file = Absent THEN NoValue
               ELSE IF file = Unreadable THEN "config.invalid" ELSE FileError(file),
   partial |-> IF file \in {Absent, Unreadable} THEN Unset ELSE PartialOf(file)]

(* Faulty variant: the environment and the flags are not checked.          *)
ParseUnchecked(partial) == [error |-> NoValue, partial |-> partial]

(* parse_log_level, parse_timeout and parse_line_bytes, which the variables*)
(* and the flags go through.                                               *)
Parse(partial) ==
  [error |-> IF InRange(partial) THEN NoValue ELSE "config.invalid", partial |-> partial]

Over(config, partial) ==
  [o \in Options |-> IF partial[o] = NoValue THEN config[o] ELSE partial[o]]

(* resolve                                                                 *)
Resolve(user, project, env, flags) ==
  LET layers == <<ReadConfig(user), ReadConfig(project), Parse(env), Parse(flags)>>
      faulty == {i \in DOMAIN layers : layers[i].error # NoValue}
  IN  IF faulty # {}
        THEN [error |-> layers[CHOOSE i \in faulty : \A j \in faulty : i <= j].error,
              config |-> NoValue]
        ELSE [error |-> NoValue,
              config |-> Over(Over(Over(Over(Default, layers[1].partial), layers[2].partial),
                                   layers[3].partial), layers[4].partial)]

-----------------------------------------------------------------------------
(* parse_args: flags with their values, then a command.  An argument is a  *)
(* value or a word; Flag names the option a flag sets.                     *)

Words == {"--log-level", "--shutdown-timeout-seconds", "--jsonl-max-line-bytes", "--jsonl",
          "--other", "run", "version", "daemon", "tui", "doctor"}

Flag == [f \in {"--log-level", "--shutdown-timeout-seconds", "--jsonl-max-line-bytes"} |->
           CASE f = "--log-level"                -> "log_level"
             [] f = "--shutdown-timeout-seconds" -> "shutdown_timeout_seconds"
             [] f = "--jsonl-max-line-bytes"     -> "jsonl_max_line_bytes"]

IsFlag(arg) == arg \in DOMAIN Flag \cup {"--jsonl", "--other"}

(* How many of the arguments are flags that come before the command.       *)
FlagsBefore(args) ==
  CHOOSE k \in 0 .. (Len(args) + 1) \div 2 :
    /\ \A i \in 1 .. k : IsFlag(args[2 * i - 1])
    /\ 2 * k + 1 <= Len(args) => ~IsFlag(args[2 * k + 1])

ModeOf(command) ==
  IF command = <<"run", "--jsonl">> THEN "jsonl"
  ELSE IF \E m \in Modes \ {"jsonl"} : command = <<m>> THEN Head(command) ELSE NoValue

ParseArgs(args) ==
  LET k == FlagsBefore(args)
      paired == \A i \in 1 .. k :
                  args[2 * i - 1] \in DOMAIN Flag /\ 2 * i <= Len(args) /\ ~IsFlag(args[2 * i])
      setBy(o) == {i \in 1 .. k : Flag[args[2 * i - 1]] = o}
  IN  IF ~paired THEN [mode |-> NoValue, flags |-> Unset]
      ELSE [mode  |-> ModeOf(SubSeq(args, 2 * k + 1, Len(args))),
            flags |-> [o \in Options |->
                         IF setBy(o) = {} THEN NoValue
                         ELSE args[2 * (CHOOSE i \in setBy(o) : \A j \in setBy(o) : j <= i)]]]
=============================================================================
