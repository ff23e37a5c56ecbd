------------------------------ MODULE SetupMC ------------------------------
(* Instances of Setup for TLC. *)
EXTENDS Setup, TLC

Source(env, file) == [env |-> env, file |-> file]
Level(name) == <<"level">> :> name
Named(name) == <<"encoder_name">> :> name
Nested(name) == <<"encoder", "name">> :> name
Initial(n) == <<"sampling", "initial">> :> n
SamplingOn == (<<"sampling", "enabled">> :> TRUE) @@ (<<"sampling", "thereafter">> :> 2)
DebugRule(part, value) == RuleKeyOf("debug", part) :> value
Empty == << >>

StringsMC == STRING

\* Every key the model keeps, from the environment against a file that says
\* otherwise; and every way to be refused.
EnvSettings ==
    (<<"enable_json">> :> FALSE) @@ (<<"enable_async">> :> FALSE)
        @@ (<<"async", "overflow_strategy">> :> "drop-oldest") @@ (<<"output">> :> "stderr")
        @@ (<<"color", "enable">> :> FALSE) @@ (<<"color", "force_tty">> :> FALSE)
        @@ (<<"file", "path">> :> "app.log") @@ (<<"file", "max_size">> :> -1)
        @@ (<<"file", "file_mode">> :> "0600")
FileSettings ==
    (<<"enable_json">> :> TRUE) @@ (<<"async", "overflow_strategy">> :> "block")
        @@ (<<"output">> :> "old.log") @@ (<<"color", "enable">> :> TRUE)
        @@ (<<"file", "path">> :> "old.log") @@ (<<"file", "max_size">> :> 5)
        @@ (<<"file", "file_mode">> :> "600") @@ Level("warning") @@ Initial(3)
EnvSampling ==
    Initial(1) @@ (<<"sampling", "per_level_threshold">> :> FALSE)
        @@ (RuleKeyOf("info", "initial") :> 2) @@ (RuleKeyOf("info", "thereafter") :> 3)
        @@ (RuleKeyOf("trace", "enabled") :> FALSE)
FileSampling ==
    SamplingOn @@ Initial(3) @@ (<<"sampling", "per_level_threshold">> :> TRUE)
        @@ DebugRule("thereafter", 2) @@ (RuleKeyOf("info", "thereafter") :> 1)
        @@ (RuleKeyOf("trace", "enabled") :> TRUE)

DocumentsMC ==
    {Source(Level("debug") @@ EnvSettings, FileSettings),
     Source(Empty, Level("panic")),
     Source(Named("console"), Nested("short")),
     Source(EnvSampling, FileSampling),
     Source(Empty, SamplingOn @@ (RuleKeyOf("warning", "initial") :> 1)),
     Source(Empty, (<<"color", "level_colors", "loud">> :> "red") @@ (<<"output">> :> "app.log")),
     Source(<<"async", "overflow_strategy">> :> "newest", Empty),
     Source(<<"output">> :> "../log", <<"file", "file_mode">> :> "rw")}

ChangesMC ==
    {[registry |-> "shared", json |-> TRUE],
     [registry |-> "shared", encoderName |-> "short", strategy |-> "unknown"],
     [encoder |-> "mine", sampling |-> [enabled |-> TRUE, initial |-> 1, thereafter |-> 0, perLevel |-> FALSE]],
     [sinks |-> << >>, path |-> "app.log",
      sampling |-> [enabled |-> TRUE, initial |-> 0, thereafter |-> 3, perLevel |-> TRUE]]}

\* The last two are what a program may fill in itself.
PresetsMC ==
    {ProductionConfig, DevelopmentConfig, Hlog(FALSE),
     [DefaultConfig EXCEPT !.sinks = << >>], [DefaultConfig EXCEPT !.level = 6]}

RulesMC == {<<1, [enabled |-> TRUE, initial |-> 0, thereafter |-> 3]>>,
            <<0, [enabled |-> FALSE, initial |-> 0, thereafter |-> 0]>>}

MakersAndCallers == Permutations(Makers) \cup Permutations(Callers)
=============================================================================
