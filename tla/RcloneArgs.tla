----------------------------- MODULE RcloneArgs -----------------------------
(***************************************************************************)
(* The command line of rclone (runWithMetrics in internal/daemon/worker.go) *)
(* and the user's arguments in it: ParseRcloneArgs and the two sanitizers   *)
(* of internal/daemon/rclone_args.go.                                       *)
(*                                                                         *)
(* A string is a sequence of characters of five kinds.  An argument, once   *)
(* parsed, is its key (what stands before a "="), or a value.               *)
(***************************************************************************)
EXTENDS Naturals, SequencesExt

---------------------------------------------------------------------------
(* ParseRcloneArgs.  Of a character it matters whether it is a space, a     *)
(* quote of either kind, a backslash, or another one.                       *)

Characters == {"space", "single", "double", "backslash", "other"}

\* strings.TrimSpace.
TrimSpace(s) ==
    LET solid == {i \in DOMAIN s : s[i] # "space"}
    IN  IF solid = {} THEN <<>>
        ELSE SubSeq(s, CHOOSE i \in solid : \A k \in solid : i <= k,
                       CHOOSE i \in solid : \A k \in solid : i >= k)

Scanner == [out |-> <<>>, b |-> <<>>, inSingle |-> FALSE, inDouble |-> FALSE, escaped |-> FALSE]

flush(t) == IF t.b = <<>> THEN t ELSE [t EXCEPT !.out = Append(@, t.b), !.b = <<>>]

\* Mutant: a backslash escapes within single quotes too.
ScanEscapingAll(t, c) ==
    CASE t.escaped -> [t EXCEPT !.b = Append(@, c), !.escaped = FALSE]
      [] ~t.escaped /\ c = "backslash" -> [t EXCEPT !.escaped = TRUE]
      [] ~t.escaped /\ c = "single" /\ ~t.inDouble -> [t EXCEPT !.inSingle = ~@]
      [] ~t.escaped /\ c = "double" /\ ~t.inSingle -> [t EXCEPT !.inDouble = ~@]
      [] ~t.escaped /\ c = "space" /\ ~t.inSingle /\ ~t.inDouble -> flush(t)
      [] OTHER -> [t EXCEPT !.b = Append(@, c)]

\* One round of the loop.
Scan(t, c) ==
    CASE t.escaped -> [t EXCEPT !.b = Append(@, c), !.escaped = FALSE]
      [] ~t.escaped /\ c = "backslash" /\ ~t.inSingle -> [t EXCEPT !.escaped = TRUE]
      [] ~t.escaped /\ c = "single" /\ ~t.inDouble -> [t EXCEPT !.inSingle = ~@]
      [] ~t.escaped /\ c = "double" /\ ~t.inSingle -> [t EXCEPT !.inDouble = ~@]
      [] ~t.escaped /\ c = "space" /\ ~t.inSingle /\ ~t.inDouble -> flush(t)
      [] OTHER -> [t EXCEPT !.b = Append(@, c)]

ParseRcloneArgs(s) ==
    LET t == FoldLeft(Scan, Scanner, TrimSpace(s))
    IN  [ok |-> ~(t.escaped \/ t.inSingle \/ t.inDouble), args |-> flush(t).out]

---------------------------------------------------------------------------
(* Arguments.                                                              *)

Value == [key |-> "value", eq |-> FALSE]
Blank == [key |-> "", eq |-> FALSE]   \* spaces, in quotes

\* strings.HasPrefix(keyLower, "--rc") and (keyLower, "--stats").
RcFamily    == {"--rc", "--rc-addr", "--rc-no-auth"}
StatsFamily == {"--stats", "--stats-unit", "--stats-one-line"}

Managed == RcFamily \cup StatsFamily
           \cup {"--log-file", "--files-from", "--files-from-raw", "--files-from-replace", "--config"}

\* Mutant: the interval of --stats is not known to be its value.
optionNeedsValueBut(key) ==
    \/ key \in {"--log-file", "--files-from", "--files-from-raw", "--files-from-replace", "--config"}
    \/ key \in (RcFamily \ {"--rc"}) \cup (StatsFamily \ {"--stats"})

\* Those with "--rc-" or "--stats-" are all taken to need one.
optionNeedsValue(key) ==
    \/ key \in {"--log-file", "--files-from", "--files-from-raw", "--files-from-replace", "--config", "--stats"}
    \/ key \in (RcFamily \ {"--rc"}) \cup (StatsFamily \ {"--stats"})

\* With the prefixes --exclude, --include and --filter, and five more.
Patterns == {"--exclude", "--exclude-from", "--exclude-if-present", "--include", "--filter"}

\* Mutant: one of the five is forgotten.
isRcloneFilterKeyBut(key) == key \in Patterns \cup {"--min-age", "--max-age", "--max-size", "--ignore-size", "--delete-excluded"}

isRcloneFilterKey(key) ==
    key \in Patterns \cup {"--min-age", "--max-age", "--min-size", "--max-size", "--ignore-size", "--delete-excluded"}

rcloneFilterNeedsValue(key) == key \in Patterns \cup {"--min-age", "--max-age", "--min-size", "--max-size"}

\* A round of the loop of both sanitizers: a blocked key takes the next argument
\* with it, when it needs a value and has none of its own.
Keep(blocked, valued, t, a) ==
    IF t.skip THEN [t EXCEPT !.skip = FALSE]
    ELSE IF a = Blank THEN t
    ELSE IF a.key \in blocked THEN [t EXCEPT !.skip = ~a.eq /\ a.key \in valued]
    ELSE [t EXCEPT !.out = Append(@, a)]

Sanitized(args, blocked, valued) ==
    FoldLeft(LAMBDA t, a : Keep(blocked, valued, t, a), [out |-> <<>>, skip |-> FALSE], args).out

Keys(args) == {a.key : a \in ToSet(args)}

SanitizeRcloneArgs(args) ==
    Sanitized(args, Managed, {k \in Keys(args) : optionNeedsValue(k)})

SanitizeRcloneFilterArgs(args) ==
    Sanitized(args, {k \in Keys(args) : isRcloneFilterKey(k)}, {k \in Keys(args) : rcloneFilterNeedsValue(k)})

---------------------------------------------------------------------------
(* The options of a command, by key.  A job of a rule has a list of files,  *)
(* a manual one has none; the rule may have a smallest size, extensions to  *)
(* ignore and arguments of the user.                                        *)

Own(list, minSize, ignored) ==
    <<"--stats", "--rc", "--rc-no-auth", "--rc-addr", "--log-file", "--log-level", "--transfers", "--checkers">>
    \o (IF list THEN <<"--files-from-raw">> ELSE <<>>)
    \o (IF minSize /\ ~list THEN <<"--min-size">> ELSE <<>>)
    \o (IF ignored /\ ~list THEN <<"--exclude">> ELSE <<>>)

UserArgs(list, args) == LET san == SanitizeRcloneArgs(args)
                        IN  IF list THEN SanitizeRcloneFilterArgs(san) ELSE san

---------------------------------------------------------------------------
(* What rclone makes of arguments (its documentation): which options take a *)
(* value, and so which arguments belong together.                           *)

TakesValue(key) == key \in {"--rc-addr", "--stats", "--stats-unit", "--log-file", "--files-from", "--files-from-raw",
                            "--config", "--bwlimit", "--min-age", "--max-age", "--min-size", "--max-size"} \cup Patterns

Read(t, a) ==
    IF t.open THEN [t EXCEPT !.out = Append(Front(@), Append(Last(@), a)), !.open = FALSE]
    ELSE [out |-> Append(t.out, <<a>>), open |-> ~a.eq /\ TakesValue(a.key)]

\* The options of the arguments, with their values; a value that belongs to
\* none comes as an option of its own.
Options(args) == FoldLeft(Read, [out |-> <<>>, open |-> FALSE], args)

Omit(keys, t, o) == IF o[1].key \in keys THEN t ELSE Append(t, o)

\* Those that are left when the options with the keys are taken out.
Without(keys, opts) == FoldLeft(LAMBDA t, o : Omit(keys, t, o), <<>>, opts)

\* As a user means it: each option that takes a value has one, which is no
\* option, and nothing else stands by itself.
WellFormed(args) ==
    LET t == Options(args)
    IN  /\ ~t.open
        /\ \A i \in DOMAIN t.out : /\ Head(t.out[i]) \notin {Value, Blank}
                                   /\ Len(t.out[i]) = 2 => t.out[i][2] = Value

---------------------------------------------------------------------------
(* A user fills in the field of a form, argument by argument; in another    *)
(* view of the same field, character by character.                          *)

CONSTANTS
    UserKeys,  \* the keys a user may write
    MaxArgs,   \* bound on the arguments
    MaxChars   \* bound on the characters

ASSUME FieldBounds == MaxArgs \in Nat /\ MaxChars \in Nat

VARIABLES
    args,  \* the arguments of the field
    text   \* an argument in it, by its characters

field == <<args, text>>

Arguments == {[key |-> k, eq |-> FALSE] : k \in UserKeys}
             \cup {[key |-> k, eq |-> TRUE] : k \in {q \in UserKeys : TakesValue(q)}}
             \cup {Value, Blank}

EmptyField == args = <<>> /\ text = <<>>

TypeArgument == /\ text = <<>> /\ Len(args) < MaxArgs
                /\ \E a \in Arguments : args' = Append(args, a)
                /\ text' = text

TypeCharacter == /\ args = <<>> /\ Len(text) < MaxChars
                 /\ \E c \in Characters : text' = Append(text, c)
                 /\ args' = args

\* The variables hold values of their types.
FieldTypeOK == /\ args \in Seq(Arguments) /\ Len(args) <= MaxArgs
               /\ text \in Seq(Characters) /\ Len(text) <= MaxChars

\* Taken for options with a value, which they are not (the last is none of
\* rclone's at all).
Misread == {"--rc-no-auth", "--stats-one-line", "--files-from-replace"}

\* The sanitizers remove whole options and nothing else: of a line as a user
\* means it there remain the options that are not managed, with their values,
\* and for a job with a list those that are no filters.  (Not so after the
\* options of Misread, which take an option of the user with them.)
SanitizedAsMeant ==
    WellFormed(args) /\ (\A i \in DOMAIN args : args[i].key \notin Misread)
    => \A list \in BOOLEAN :
          LET removed == {k \in Keys(args) : k \in Managed \/ (list /\ isRcloneFilterKey(k))}
          IN  Options(UserArgs(list, args)).out = Without(removed, Options(args).out)

\* What rclone calls a filter: no such option may come with a list of files.
Filters == Patterns \cup {"--min-age", "--max-age", "--min-size", "--max-size", "--delete-excluded"}

\* Whatever a user writes, no command joins a list of files with a filter
\* ("forbid combining --files-from with any other filter options", worker.go:478).
ListWithoutFilters ==
    \A minSize, ignored \in BOOLEAN :
        Filters \cap (ToSet(Own(TRUE, minSize, ignored)) \cup Keys(UserArgs(TRUE, args))) = {}

\* Quoting, the inverse of parsing: within double quotes, with a backslash
\* before quote and backslash; or within single quotes.
Escape(t, c) == t \o (IF c \in {"double", "backslash"} THEN <<"backslash", c>> ELSE <<c>>)

DoubleQuoted(s) == <<"double">> \o FoldLeft(Escape, <<>>, s) \o <<"double">>

SingleQuoted(s) == <<"single">> \o s \o <<"single">>

\* What is quoted is parsed as it was, whatever quotes, spaces and backslashes
\* it has; only an argument of no characters is lost.
ParsesQuoted ==
    LET Line(q)  == ParseRcloneArgs(q \o <<"space", "space">> \o DoubleQuoted(text) \o <<"space">>)
        meant    == [ok |-> TRUE, args |-> IF text = <<>> THEN <<>> ELSE <<text, text>>]
    IN  /\ Line(DoubleQuoted(text)) = meant
        /\ "single" \notin ToSet(text) => Line(SingleQuoted(text)) = meant
=============================================================================
