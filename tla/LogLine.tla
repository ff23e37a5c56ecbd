------------------------------ MODULE LogLine ------------------------------
(***************************************************************************)
(* What a line says (adapter.go).  A program derives loggers with fields   *)
(* and contexts from one another and logs through any of them; the entry   *)
(* gets the logger's fields, those of its context and the stack, and is    *)
(* written as JSON or for the console.                                     *)
(*                                                                         *)
(* A text is a sequence of runes, a rune the sequence of its UTF-8 bytes.  *)
(* A value is its kind, as the encoders' type switches tell kinds apart,   *)
(* and the texts it can print as.  In an output, a byte written as it is   *)
(* and a JSON escape are told apart.  Time and caller have no effect on    *)
(* the rest of a line and are left out.                                    *)
(***************************************************************************)
EXTENDS Integers, Sequences, SequencesExt

CONSTANTS
    Keys,       \* keys of fields
    Values,     \* values of fields
    Batches,    \* arguments of WithFields
    Contexts,   \* contexts: texts under some of the known keys
    Messages,
    LogLevels,
    MaxLoggers  \* bound: loggers derived

\* A text, its runes and its keys, and what is given to a program that has texts
\* of the set T and keys of the set K.
Bytes == 0 .. 255
Runes == Seq(Bytes) \ {<< >>}

\* What the type switches tell apart.  A stringer is a fmt.Stringer, a "both" is an
\* error too, and a formatter (a *big.Int) is one that takes %+v into its own hands.
Kinds == {"nil", "int", "float", "bool", "complex", "string", "bytes", "time",
          "error", "stringer", "both", "formatter", "other"}

\* text: what strconv, String, %v or RFC 3339 make of a value, or its bytes as they
\* are; error: what Error returns; plus: what %+v prints, for a stringer its String.
ValuesOf(T) ==
    {v \in [kind : Kinds, text : T, error : T, plus : T] : v.kind = "stringer" => v.plus = v.text}
FieldsOf(K, T) == [key : K, value : ValuesOf(T)]
ContextNames == {"namespace", "service", "user", "trace_id"}
IsContext(ctx, T) == DOMAIN ctx \subseteq ContextNames /\ \A k \in DOMAIN ctx : ctx[k] \in T
InputsIn(K, T) ==
    /\ Keys \subseteq K /\ Values \subseteq ValuesOf(T)
    /\ Batches \subseteq Seq(FieldsOf(K, T))
    /\ \A ctx \in Contexts : IsContext(ctx, T)
    /\ Messages \subseteq T

ASSUME LineAssumption ==
    /\ InputsIn(Seq(Bytes), Seq(Runes))
    /\ LogLevels \subseteq Int /\ MaxLoggers \in Nat

VARIABLES
    loggers,  \* the loggers, each with its fields and context
    given,    \* history: all the fields each was given, its ancestors' first
    line      \* the last entry and its two forms

vars == <<loggers, given, line>>

Field(key, value) == [key |-> key, value |-> value]
Text(ascii) == [i \in DOMAIN ascii |-> <<ascii[i]>>]
NoLine == [level |-> -1, message |-> << >>, fields |-> << >>, context |-> << >>,
           json |-> << >>, console |-> << >>]

Init ==
    /\ loggers = <<[fields |-> << >>, ctx |-> << >>]>>
    /\ given = << << >> >>
    /\ line = NoLine

-----------------------------------------------------------------------------
(* Fields. *)

Positions(fields, key) == {i \in DOMAIN fields : fields[i].key = key}
FirstOf(S) == CHOOSE i \in S : \A j \in S : i <= j
LastOf(S) == CHOOSE i \in S : \A j \in S : i >= j

AppendOrReplace(fields, f) ==
    IF Positions(fields, f.key) = {} THEN Append(fields, f)
    ELSE [fields EXCEPT ![FirstOf(Positions(fields, f.key))].value = f.value]

\* The first fields of all are copied without that look.
MergeFieldSets(base, extras) ==
    LET merged[n \in 0 .. Len(extras)] ==
            IF n = 0 THEN base ELSE AppendOrReplace(merged[n - 1], extras[n])
    IN IF base = << >> THEN extras ELSE merged[Len(extras)]

Derive(i, logger, fields) ==
    /\ Len(loggers) < MaxLoggers
    /\ loggers' = Append(loggers, logger)
    /\ given' = Append(given, given[i] \o fields)
    /\ line' = NoLine

\* Mutant: the field is replaced in the array the two loggers share.
WithField_InPlace(i, f) ==
    LET updated == AppendOrReplace(loggers[i].fields, f)
        shared == IF Positions(loggers[i].fields, f.key) # {} THEN updated ELSE loggers[i].fields
    IN /\ Len(loggers) < MaxLoggers
       /\ loggers' = Append([loggers EXCEPT ![i].fields = shared],
                            [loggers[i] EXCEPT !.fields = updated])
       /\ given' = Append(given, Append(given[i], f))
       /\ line' = NoLine

\* Also WithError.  Without a key the logger itself comes back.
WithField(i, f) ==
    /\ f.key # << >>
    /\ Derive(i, [loggers[i] EXCEPT !.fields = AppendOrReplace(@, f)], <<f>>)

WithFields(i, batch) ==
    /\ batch # << >>
    /\ Derive(i, [loggers[i] EXCEPT !.fields = MergeFieldSets(@, batch)], batch)

WithContext(i, ctx) == Derive(i, [loggers[i] EXCEPT !.ctx = ctx], << >>)

-----------------------------------------------------------------------------
(* JSON. *)

Raw(bytes) == [i \in DOMAIN bytes |-> <<"raw", bytes[i]>>]
AsIs(text) == Raw(FlattenSeq(text))

NeedsEscaping(c) == c \in {34, 92} \/ c < 32 \/ c > 126

\* Mutant: only what is not printable is escaped.
JsonEscapeRune_ControlOnly(rune) ==
    IF Head(rune) < 32 \/ Head(rune) > 126
    THEN <<<<"escape", Head(rune)>>>> \o Raw(Tail(rune)) ELSE Raw(rune)

\* The loop steps from rune to rune and looks at the first byte of each; what
\* follows a byte that was escaped is pending and written as it is.
JsonEscapeRune(rune) ==
    IF NeedsEscaping(Head(rune))
    THEN <<<<"escape", Head(rune)>>>> \o Raw(Tail(rune)) ELSE Raw(rune)

JsonEscapeString(text) == FlattenSeq([i \in DOMAIN text |-> JsonEscapeRune(text[i])])

Null == Text(<<110, 117, 108, 108>>)
BareKinds == {"int", "float", "bool"}

\* An error is asked before a Stringer; what has no case of its own goes to %+v.
JSONText(v) ==
    CASE v.kind = "nil" -> Null
      [] v.kind \in {"error", "both"} -> v.error
      [] v.kind \in BareKinds \cup {"string", "time", "bytes"} -> v.text
      [] OTHER -> v.plus

FormatJSONValue(v) ==
    IF v.kind \in BareKinds \cup {"nil"} THEN [quoted |-> FALSE, tokens |-> AsIs(JSONText(v))]
    ELSE [quoted |-> TRUE, tokens |-> JsonEscapeString(JSONText(v))]

\* Keys are written as they are.
Member(f) ==
    [key |-> Raw(f.key),
     quoted |-> FormatJSONValue(f.value).quoted, tokens |-> FormatJSONValue(f.value).tokens]

FormatJSONOutput(entry) ==
    [severity |-> entry.level,
     message |-> JsonEscapeString(entry.message),
     members |-> [i \in DOMAIN entry.fields |-> Member(entry.fields[i])]]

-----------------------------------------------------------------------------
(* The console. *)

\* Mutant: errors have no case of their own.
FormatValue_PlusForErrors(v) ==
    CASE v.kind = "nil" -> Null
      [] v.kind \in {"bytes", "error", "other"} -> v.plus
      [] OTHER -> v.text

\* A Stringer is asked before an error; a []byte has no case of its own.
FormatValue(v) ==
    CASE v.kind = "nil" -> Null
      [] v.kind = "error" -> v.error
      [] v.kind \in {"bytes", "other"} -> v.plus
      [] OTHER -> v.text

FormatConsoleOutput(entry) ==
    [severity |-> entry.level,
     message |-> AsIs(entry.message),
     members |-> [i \in DOMAIN entry.fields |->
                     [key |-> Raw(entry.fields[i].key),
                      tokens |-> AsIs(FormatValue(entry.fields[i].value))]]]

-----------------------------------------------------------------------------
(* The size of a line is guessed and rounded up.  A number is the set of its  *)
(* bits where the code shifts it.                                            *)

TopBit == 30
PowerOf2[n \in 0 .. TopBit + 1] == IF n = 0 THEN 1 ELSE 2 * PowerOf2[n - 1]
BitsOf(val) == {i \in 0 .. TopBit : (val \div PowerOf2[i]) % 2 = 1}
NumberOf(bits) ==
    LET low[n \in 0 .. TopBit + 1] ==
            IF n = 0 THEN 0
            ELSE low[n - 1] + (IF n - 1 \in bits THEN PowerOf2[n - 1] ELSE 0)
    IN low[TopBit + 1]

\* val |= val >> shift
Smear(bits, shift) == bits \cup {i \in 0 .. TopBit : i + shift \in bits}
SmearAll(bits) == Smear(Smear(Smear(Smear(Smear(bits, 1), 2), 4), 8), 16)

\* Mutant: powers of two are rounded up too.
NextPowerOfTwo_NoDecrement(val) == NumberOf(SmearAll(BitsOf(val))) + 1

NextPowerOfTwo(val) == NumberOf(SmearAll(BitsOf(val - 1))) + 1

GuessedSize(json, entry) ==
    (IF json THEN 200 ELSE 100) + Len(FlattenSeq(entry.message))
        + Len(entry.fields) * (IF json THEN 40 ELSE 25)
PredictBufferSize(json, entry) == NextPowerOfTwo(GuessedSize(json, entry))

-----------------------------------------------------------------------------
(* log. *)

\* contextKeyPairs, in their order, as far as the contexts use them.
ContextKeyPairs == <<"namespace", "service", "user", "trace_id">>
ContextKey == [namespace |-> <<110>>, service |-> <<115>>, user |-> <<117>>, trace_id |-> <<116>>]

StringValue(text) == [kind |-> "string", text |-> text, error |-> text, plus |-> text]

ExtractContextKeys(ctx) ==
    FlattenSeq([i \in 1 .. 4 |->
        LET k == ContextKeyPairs[i] IN
        IF k \in DOMAIN ctx /\ ctx[k] # << >>
        THEN <<Field(ContextKey[k], StringValue(ctx[k]))>>
        ELSE << >>])

StackKey == <<107>>
AttachStackTrace(level) ==
    IF level >= 4 THEN <<Field(StackKey, StringValue(Text(<<103, 10, 9, 40>>)))>>
    ELSE << >>

Entry(i, level, message) ==
    [level |-> level, message |-> message,
     fields |-> loggers[i].fields \o ExtractContextKeys(loggers[i].ctx) \o AttachStackTrace(level)]

Encoded(i, entry) ==
    [level |-> entry.level, message |-> entry.message, fields |-> entry.fields,
     context |-> loggers[i].ctx,
     json |-> FormatJSONOutput(entry), console |-> FormatConsoleOutput(entry)]

Log(i, level, message) ==
    /\ line' = Encoded(i, Entry(i, level, message))
    /\ UNCHANGED <<loggers, given>>

Next ==
    \E i \in DOMAIN loggers :
        \/ \E k \in Keys, v \in Values : WithField(i, Field(k, v))
        \/ \E b \in Batches : WithFields(i, b)
        \/ \E c \in Contexts : WithContext(i, c)
        \/ \E l \in LogLevels, m \in Messages : Log(i, l, m)

Spec == Init /\ [][Next]_vars

-----------------------------------------------------------------------------
Logged == line # NoLine

\* A key twice among the first fields stays twice.
RepeatsAKey(fields) == ~IsInjective([n \in DOMAIN fields |-> fields[n].key])

\* A logger has each key it was given once, in the order of their first use,
\* with the value given last, and deriving others from it does not change it.
\* Loggers whose first fields repeat a key are left out: their later values may
\* go to the wrong one.
LastValueWins ==
    \A i \in DOMAIN loggers :
        LET fields == loggers[i].fields
            LastGiven(key) == given[i][LastOf(Positions(given[i], key))].value
        IN \/ \E n \in DOMAIN given[i] : RepeatsAKey(SubSeq(given[i], 1, n))
                  /\ SubSeq(given[i], 1, n) \in Batches
           \/ /\ ~RepeatsAKey(fields)
              /\ {f.key : f \in ToSet(fields)} = {f.key : f \in ToSet(given[i])}
              /\ \A f \in ToSet(fields) : f.value = LastGiven(f.key)
              /\ \A m, n \in DOMAIN fields : m < n =>
                     FirstOf(Positions(given[i], fields[m].key))
                         < FirstOf(Positions(given[i], fields[n].key))

\* Reference: what a JSON parser reads in a string, or that it refuses it.
Utf8(c) == IF c < 128 THEN <<c>> ELSE <<192 + (c \div 64), 128 + (c % 64)>>
IsJSONString(tokens) ==
    \A n \in DOMAIN tokens :
        tokens[n][1] = "raw" => tokens[n][2] \notin {34, 92} /\ tokens[n][2] >= 32
Read(tokens) ==
    FlattenSeq([n \in DOMAIN tokens |->
                   IF tokens[n][1] = "raw" THEN <<tokens[n][2]>> ELSE Utf8(tokens[n][2])])

\* Whoever reads a JSON line back gets the message, the texts the encoder chose for
\* the fields and the texts of the context: quotes, backslashes and control
\* characters in them neither end a string early nor change it.
LineIsJSON ==
    Logged =>
        /\ IsJSONString(line.json.message)
        /\ Read(line.json.message) = FlattenSeq(line.message)
        /\ \A n \in DOMAIN line.fields :
               LET member == line.json.members[n] IN
               /\ IsJSONString(member.key)
               /\ member.quoted =>
                      /\ IsJSONString(member.tokens)
                      /\ Read(member.tokens) = FlattenSeq(JSONText(line.fields[n].value))
        /\ \A text \in {line.context[k] : k \in DOMAIN line.context} \ {<< >>} :
               \E n \in DOMAIN line.json.members :
                   Read(line.json.members[n].tokens) = FlattenSeq(text)

\* Four kinds the encoders are known to print apart: a []byte (the console lists its
\* numbers, JSON has it as a string), a complex ((1+2i) and (+1+2i)), a Stringer that
\* formats itself (a *big.Int: 5 and +5), an error that is a Stringer too (String and
\* Error).
PrintedApart == {"bytes", "complex", "formatter", "both"}

\* The console shows the fields that JSON carries, under the same keys and in the
\* same order, and but for those kinds with the same text: the two type switches,
\* with their cases in different orders, come to the same for every other value.
FormatsAgree ==
    Logged =>
        /\ Len(line.json.members) = Len(line.console.members)
        /\ \A n \in DOMAIN line.json.members :
               /\ line.json.members[n].key = line.console.members[n].key
               /\ line.fields[n].value.kind \notin PrintedApart =>
                      Read(line.json.members[n].tokens) = Read(line.console.members[n].tokens)

\* The buffer asked for is the least power of two that holds the guess.  Bits
\* beyond the 32 that the shifts reach, of lines of gigabytes, are left out.
IsPowerOfTwo(n) == \E e \in 0 .. TopBit : n = PowerOf2[e]
BufferFits ==
    Logged => \A json \in BOOLEAN :
        LET size == PredictBufferSize(json, line)
            guess == GuessedSize(json, line)
        IN guess <= PowerOf2[TopBit] =>
               IsPowerOfTwo(size) /\ guess <= size /\ size < 2 * guess
=============================================================================
