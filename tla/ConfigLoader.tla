---------------------------- MODULE ConfigLoader ----------------------------
(***************************************************************************)
(* What the loader (pkg/configloader) makes of a document and of the       *)
(* environment.  A source is a partial function from keys to values; a key *)
(* is the sequence of its parts.  Decoding and letter case are viper's.    *)
(*                                                                         *)
(* A configuration is a record of the fields that decide what NewAdapter   *)
(* does; its sampling rules, a map, are kept beside it (Setup).            *)
(***************************************************************************)
EXTENDS Sampling, Sequences, SequencesExt

CONSTANT Strings  \* what the settings that are strings may be

ASSUME StringsAssumption ==
    {"unset", "stdout", "console", "json", "custom", "audit", "drop_newest", "drop_oldest",
     "block", "handoff"} \subseteq Strings

\* A refusal names the stage that failed.
NoError == "none"

\* The empty string, which no setting means to be.
Unset == "unset"
DefaultMaxFileSize == 100
LogFilePermissions == 438  \* 0o666

DefaultConfig ==
    [level |-> 2, json |-> TRUE, encoder |-> Unset, encoderName |-> Unset, registry |-> "own",
     sinks |-> <<"stdout">>, path |-> Unset, maxSize |-> DefaultMaxFileSize,
     mode |-> LogFilePermissions, async |-> TRUE, strategy |-> "drop_newest",
     colour |-> TRUE, forceTTY |-> TRUE, hooks |-> << >>,
     sampling |-> [enabled |-> FALSE, initial |-> DefaultSamplingInitial,
                   thereafter |-> DefaultSamplingThereafter, perLevel |-> FALSE]]

ProductionConfig == [DefaultConfig EXCEPT !.colour = FALSE]
DevelopmentConfig == [DefaultConfig EXCEPT !.json = FALSE, !.level = 1]

Thresholds == [enabled : BOOLEAN, initial : Int, thereafter : Int]
SamplingSettings == [enabled : BOOLEAN, initial : Int, thereafter : Int, perLevel : BOOLEAN]
Configs ==
    [level : Int, json : BOOLEAN, encoder : Strings, encoderName : Strings,
     registry : {"own", "shared"}, sinks : Seq(Strings), path : Strings, maxSize : Int,
     mode : Int, async : BOOLEAN, strategy : Strings, colour : BOOLEAN,
     forceTTY : BOOLEAN, hooks : Seq(Strings),
     sampling : SamplingSettings]

-----------------------------------------------------------------------------
(* Names. *)

LevelNames == <<"trace", "debug", "info", "warn", "error", "fatal">>

\* Mutant: it knows every name that ParseLevel knows.
LevelFromString_KnowsPanic ==
    [n \in ToSet(LevelNames) \cup {"panic"} |->
        IF n = "panic" THEN 6 ELSE (CHOOSE i \in DOMAIN LevelNames : LevelNames[i] = n) - 1]

\* levelFromString: the names that rules and colours know.
LevelFromString == [n \in ToSet(LevelNames) |-> (CHOOSE i \in DOMAIN LevelNames : LevelNames[i] = n) - 1]

\* ParseLevel: what it accepts, normalised.
ParseLevel ==
    [n \in ToSet(LevelNames) \cup {"warning", "panic"} |-> IF n = "warning" THEN "warn" ELSE n]

LevelOf(name) == LevelFromString[ParseLevel[name]]

\* parseLevel: both have to know the name.
IsLevelName(name) ==
    name \in DOMAIN ParseLevel /\ ParseLevel[name] \in DOMAIN LevelFromString

ParseOverflowStrategy ==
    [s \in {"drop_newest", "drop-newest", "drop_oldest", "drop-oldest", "block", "handoff"} |->
        IF s = "drop-newest" THEN "drop_newest"
        ELSE IF s = "drop-oldest" THEN "drop_oldest" ELSE s]

\* parseFileMode: the base follows from the prefix.
ParseFileMode == [mode \in {"0600", "600"} |-> IF mode = "0600" THEN 384 ELSE 600]

\* SetOutput: a relative path that leaves the directory is refused.
BadOutputs == {"../log"}

-----------------------------------------------------------------------------
(* Keys. *)

RuleParts == {"enabled", "initial", "thereafter"}
RuleKeyOf(name, part) == <<"sampling", "rules", name, part>>

\* allKeys: what is read from the environment.
AllKeys ==
    {<<"level">>, <<"enable_json">>, <<"enable_async">>, <<"async", "overflow_strategy">>,
     <<"encoder_name">>, <<"encoder", "name">>, <<"output">>, <<"color", "enable">>,
     <<"color", "force_tty">>, <<"sampling", "enabled">>, <<"sampling", "initial">>,
     <<"sampling", "thereafter">>, <<"sampling", "per_level_threshold">>,
     <<"file", "path">>, <<"file", "max_size">>, <<"file", "file_mode">>}
        \cup {RuleKeyOf(n, p) : n \in ToSet(LevelNames), p \in RuleParts}

\* What is decoded for a key: its last part tells the type.
Flags == {"enable_json", "enable_async", "enable", "force_tty", "enabled", "per_level_threshold"}
Numbers == {"initial", "thereafter", "max_size"}
Decoded(key) ==
    CASE key[Len(key)] \in Flags -> BOOLEAN
      [] key[Len(key)] \in Numbers -> Int
      [] OTHER -> Strings \ {Unset}

\* Mutant: the variable of a nested key keeps its dot.
Variable_KeepsDots(key) == key

\* Dots become underscores, so two keys have one variable.
Variable(key) == IF key = <<"encoder", "name">> THEN <<"encoder_name">> ELSE key

\* The environment overrides the file, key by key.
Raw(env, file) ==
    Over([k \in {j \in AllKeys : Variable(j) \in DOMAIN env} |-> env[Variable(k)]], file)

Setting(raw, key, default) == IF key \in DOMAIN raw THEN raw[key] ELSE default

\* The names of level_colors or of the sampling rules of a document.
NamesUnder(raw, first, second) ==
    {k[3] : k \in {j \in DOMAIN raw : Len(j) >= 3 /\ j[1] = first /\ j[2] = second}}
RuleNames(raw) == NamesUnder(raw, "sampling", "rules")
ColourNames(raw) == NamesUnder(raw, "color", "level_colors")

-----------------------------------------------------------------------------
(* applyRaw. *)

\* The stages in the order they are applied, and what a document says that makes
\* them fail.  The output's can fail with the file system too (OpensOutput).
Stages(raw) ==
    <<  <<"level", ~IsLevelName(Setting(raw, <<"level">>, "info"))>>,
        <<"strategy", Setting(raw, <<"async", "overflow_strategy">>, "block")
                          \notin DOMAIN ParseOverflowStrategy>>,
        <<"mode", Setting(raw, <<"file", "file_mode">>, "0600") \notin DOMAIN ParseFileMode>>,
        <<"output", Setting(raw, <<"output">>, "stdout") \in BadOutputs>>,
        <<"colours", ~(ColourNames(raw) \subseteq DOMAIN LevelFromString)>>,
        <<"rules", ~(RuleNames(raw) \subseteq DOMAIN LevelFromString)>> >>

Refusal(raw) ==
    LET stages == Stages(raw)
        failed == {i \in DOMAIN stages : stages[i][2]}
    IN IF failed = {} THEN NoError
       ELSE stages[CHOOSE i \in failed : \A j \in failed : i <= j][1]

\* SetOutput, once the stages before it have passed, opens whatever is not one of
\* the standard streams nor refused above.
OpensOutput(raw) ==
    /\ <<"output">> \in DOMAIN raw
    /\ raw[<<"output">>] \notin BadOutputs \cup {"stdout", "stderr"}
    /\ Refusal(raw) \notin {"level", "strategy", "mode"}

\* encoder.name wins over encoder_name.
EncoderName(raw) ==
    Setting(raw, <<"encoder", "name">>, Setting(raw, <<"encoder_name">>, Unset))

LoadedSampling(raw) ==
    [enabled |-> Setting(raw, <<"sampling", "enabled">>, DefaultConfig.sampling.enabled),
     initial |-> Setting(raw, <<"sampling", "initial">>, DefaultSamplingInitial),
     thereafter |-> Setting(raw, <<"sampling", "thereafter">>, DefaultSamplingThereafter),
     perLevel |-> Setting(raw, <<"sampling", "per_level_threshold">>, FALSE)]

\* A rule inherits what it does not say from the sampling settings.
LoadedRules(raw) ==
    LET sampling == LoadedSampling(raw)
        Part(l, part, default) == Setting(raw, RuleKeyOf(LevelNames[l + 1], part), default)
    IN [l \in {LevelFromString[n] : n \in RuleNames(raw)} |->
           [enabled |-> Part(l, "enabled", TRUE),
            initial |-> Part(l, "initial", sampling.initial),
            thereafter |-> Part(l, "thereafter", sampling.thereafter)]]

ApplyRaw(raw) ==
    [level |-> LevelOf(Setting(raw, <<"level">>, "info")),
     json |-> Setting(raw, <<"enable_json">>, DefaultConfig.json),
     encoder |-> Unset, encoderName |-> EncoderName(raw), registry |-> "own",
     sinks |-> <<Setting(raw, <<"output">>, "stdout")>>,
     path |-> Setting(raw, <<"file", "path">>, Unset),
     maxSize |-> Setting(raw, <<"file", "max_size">>, DefaultMaxFileSize),
     mode |-> IF <<"file", "file_mode">> \in DOMAIN raw
              THEN ParseFileMode[raw[<<"file", "file_mode">>]] ELSE LogFilePermissions,
     async |-> Setting(raw, <<"enable_async">>, DefaultConfig.async),
     strategy |-> ParseOverflowStrategy[
                     Setting(raw, <<"async", "overflow_strategy">>, "drop_newest")],
     colour |-> Setting(raw, <<"color", "enable">>, DefaultConfig.colour),
     forceTTY |-> Setting(raw, <<"color", "force_tty">>, DefaultConfig.forceTTY),
     hooks |-> << >>,
     sampling |-> LoadedSampling(raw)]
=============================================================================
