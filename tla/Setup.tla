------------------------------- MODULE Setup -------------------------------
(***************************************************************************)
(* How a program gets its loggers.  It builds configurations with a        *)
(* ConfigBuilder (config_builder.go), takes a preset (config.go, hlog) or  *)
(* loads a document (ConfigLoader), and goroutines turn them into loggers  *)
(* with NewAdapter (adapter.go), several at a time.  They may share an     *)
(* EncoderRegistry, and configurations of one builder share its map of     *)
(* sampling rules.  The loggers then sample concurrent calls (Sampling).   *)
(*                                                                         *)
(* Unlike the registry, the builder and its map have no lock: a program    *)
(* uses them while no goroutine is in NewAdapter.                          *)
(***************************************************************************)
EXTENDS ConfigLoader, FiniteSets

CONSTANTS
    Makers,       \* goroutines, each makes one logger
    Callers,      \* goroutines that log once the loggers are made
    Documents,    \* pairs of an environment and a file
    Presets,      \* presets, or configurations filled in by hand, that makers take
    Changes,      \* what one call of the builder may set
    SamplingRules,\* pairs of a level and a rule for WithSamplingRule
    CallLevels,   \* levels at which callers log
    MaxChanges,   \* bound: calls of the builder
    MaxRegistrations,  \* bound: encoders the program registers itself
    MaxCalls,     \* bound: log calls
    MaxFaults     \* bound: files that cannot be opened or read

ASSUME SetupAssumption ==
    /\ CallLevels \subseteq AllLevels /\ {"builder", "none"} \cap Makers = {}
    /\ Presets \subseteq Configs
    /\ \A settings \in Changes :
          DOMAIN settings \subseteq DOMAIN DefaultConfig /\ Over(settings, DefaultConfig) \in Configs
    /\ \A r \in SamplingRules : r[2] \in Thresholds
    /\ \A source \in Documents :
          /\ \A key \in AllKeys : Variable(key) \in DOMAIN source.env =>
                source.env[Variable(key)] \in Decoded(key)
          /\ \A key \in DOMAIN source.file : source.file[key] \in Decoded(key)
    /\ IsFiniteSet(Callers)
    /\ {MaxChanges, MaxRegistrations, MaxCalls, MaxFaults} \subseteq Nat

VARIABLES
    builder,     \* the builder's configuration
    builderMap,  \* it has made its map of rules
    changes,
    ruleMaps,    \* the contents of the maps of rules, by owner
    registry,    \* the shared EncoderRegistry, from names to encoders
    registrations,
    pc,          \* where each maker is
    cfg,         \* its configuration
    rulesOf,     \* the owner of its map of rules, or "none"
    document,    \* history: the environment and file it was loaded from
    asked,       \* history: the sampling settings and rules NewAdapter was given
    cause,       \* why it has no logger
    encoder,     \* the encoder of its logger
    sampler,     \* the rules of its sampler
    counters,    \* the counter of each rule
    call,        \* what each caller is deciding, or Idle
    seen,        \* history: calls ended, by logger and level
    passed,      \* history: those that were let through
    calls,
    faults

setupVars == <<builder, builderMap, changes, ruleMaps, registry, registrations>>
makerVars == <<pc, cfg, rulesOf, document, asked, cause, encoder>>
samplingVars == <<sampler, counters, call, seen, passed, calls>>
vars == <<setupVars, makerVars, samplingVars, faults>>

Idle == [logger |-> "none", level |-> 0, count |-> 0]
Nothing == [env |-> << >>, file |-> << >>]

\* NewConfigBuilder.  Its settings differ from DefaultConfig's.
NewConfigBuilder ==
    [DefaultConfig EXCEPT !.json = FALSE, !.async = FALSE, !.forceTTY = FALSE]

Init ==
    /\ builder = NewConfigBuilder /\ builderMap = FALSE /\ changes = MaxChanges
    /\ ruleMaps = [o \in Makers \cup {"builder", "none"} |-> << >>]
    /\ registry = << >> /\ registrations = MaxRegistrations
    /\ pc = [g \in Makers |-> "idle"]
    /\ cfg = [g \in Makers |-> DefaultConfig]
    /\ rulesOf = [g \in Makers |-> "none"]
    /\ document = [g \in Makers |-> Nothing]
    /\ asked = [g \in Makers |-> [sampling |-> DefaultConfig.sampling, rules |-> << >>]]
    /\ cause = [g \in Makers |-> NoError]
    /\ encoder = [g \in Makers |-> Unset]
    /\ sampler = [g \in Makers |-> << >>]
    /\ counters = [g \in Makers |-> << >>]
    /\ call = [t \in Callers |-> Idle]
    /\ seen = [g \in Makers |-> [l \in CallLevels |-> 0]]
    /\ passed = [g \in Makers |-> [l \in CallLevels |-> 0]]
    /\ calls = MaxCalls /\ faults = MaxFaults

Ended(g) == pc[g] \in {"ready", "failed"}
NobodyBuilds == \A g \in Makers : pc[g] \in {"idle", "configured", "ready", "failed"}

\* Bound: the first log call ends the configuring.
NobodyLogs == calls = MaxCalls

-----------------------------------------------------------------------------
(* The builder. *)

Change ==
    /\ NobodyBuilds /\ NobodyLogs
    /\ changes > 0 /\ changes' = changes - 1

\* The setters, and the presets that call several of them.
With(settings) ==
    /\ Change
    /\ builder' = Over(settings, builder)
    /\ UNCHANGED <<builderMap, ruleMaps, registry, registrations, makerVars, samplingVars, faults>>

WithHook(name) ==
    /\ Change
    /\ builder' = [builder EXCEPT !.hooks = Append(@, name)]
    /\ UNCHANGED <<builderMap, ruleMaps, registry, registrations, makerVars, samplingVars, faults>>

\* The map is made by the first call; configurations built after it share it.
WithSamplingRule(level, rule) ==
    /\ Change
    /\ level \in AllLevels
    /\ builderMap' = TRUE
    /\ ruleMaps' = [ruleMaps EXCEPT !["builder"] = Over([l \in {level} |-> rule], @)]
    /\ UNCHANGED <<builder, registry, registrations, makerVars, samplingVars, faults>>

-----------------------------------------------------------------------------
(* Configurations. *)

Configure(g, config, owner, source) ==
    /\ pc[g] = "idle" /\ NobodyBuilds
    /\ cfg' = [cfg EXCEPT ![g] = config]
    /\ rulesOf' = [rulesOf EXCEPT ![g] = owner]
    /\ document' = [document EXCEPT ![g] = source]
    /\ pc' = [pc EXCEPT ![g] = "configured"]
    /\ UNCHANGED <<asked, encoder, samplingVars, faults>>

Build(g) ==
    /\ Configure(g, builder, IF builderMap THEN "builder" ELSE "none", Nothing)
    /\ UNCHANGED <<setupVars, cause>>

\* hlog.NewWithDefaults writes to a ConsoleWriter.  The other presets are in
\* ConfigLoader.
Hlog(production) ==
    [DefaultConfig EXCEPT !.sinks = <<"console">>, !.json = production,
                          !.level = IF production THEN 2 ELSE 1]

TakePreset(g) ==
    /\ \E config \in Presets : Configure(g, config, "none", Nothing)
    /\ UNCHANGED <<setupVars, cause>>

Fail(g, why) ==
    /\ pc' = [pc EXCEPT ![g] = "failed"]
    /\ cause' = [cause EXCEPT ![g] = why]

\* The file system refuses a file.
Fault == faults > 0 /\ faults' = faults - 1

Reject(g, source, why) ==
    /\ pc[g] = "idle" /\ NobodyBuilds
    /\ Fail(g, why)
    /\ document' = [document EXCEPT ![g] = source]
    /\ UNCHANGED <<cfg, rulesOf, asked, encoder, setupVars, samplingVars>>

\* FromEnv, FromYAML and FromFile, which first reads the file.
Load(g) == \E source \in Documents :
    LET raw == Raw(source.env, source.file) IN
    \/ /\ Refusal(raw) = NoError
       /\ Configure(g, ApplyRaw(raw), g, source)
       /\ ruleMaps' = [ruleMaps EXCEPT ![g] = LoadedRules(raw)]
       /\ UNCHANGED <<builder, builderMap, changes, registry, registrations, cause>>
    \/ Refusal(raw) # NoError /\ Reject(g, source, Refusal(raw)) /\ UNCHANGED faults
    \/ source.file # << >> /\ Fault /\ Reject(g, source, "read")
    \/ OpensOutput(raw) /\ Fault /\ Reject(g, source, "open")

-----------------------------------------------------------------------------
(* NewAdapter. *)

\* prepareOutput: the file goes behind what the configuration writes to.
PreparedOutput(c) ==
    IF c.path = Unset THEN c
    ELSE [c EXCEPT !.sinks = Append(@, c.path), !.maxSize = IF @ > 0 THEN @ ELSE 0]

\* A ConsoleWriter counts as a terminal, wherever it writes; so does standard
\* output here, as if the program ran in one.
HasTTY(sinks) == \E i \in DOMAIN sinks : sinks[i] \in {"console", "stdout"}

\* validateConfig: defaults and the colour policy.
Validated(c) ==
    [c EXCEPT !.colour = @ /\ (c.forceTTY \/ HasTTY(c.sinks)),
              !.strategy = IF @ \in {"block", "drop_oldest", "handoff"} THEN @ ELSE "drop_newest"]

NewAdapter(g) ==
    /\ pc[g] = "configured"
    /\ asked' = [asked EXCEPT ![g] = [sampling |-> cfg[g].sampling, rules |-> ruleMaps[rulesOf[g]]]]
    /\ LET c == PreparedOutput(cfg[g]) IN
       \/ c.path # Unset /\ Fault /\ Fail(g, "open") /\ UNCHANGED cfg
       \/ /\ c.level \notin AllLevels
          /\ Fail(g, "level") /\ UNCHANGED <<cfg, faults>>
       \/ /\ c.level \in AllLevels /\ c.sinks = << >>
          /\ Fail(g, "output") /\ UNCHANGED <<cfg, faults>>
       \/ /\ c.level \in AllLevels /\ c.sinks # << >>
          /\ cfg' = [cfg EXCEPT ![g] = Validated(c)]
          /\ pc' = [pc EXCEPT ![g] = "encoder"]
          /\ UNCHANGED <<cause, faults>>
    /\ UNCHANGED <<rulesOf, document, encoder, setupVars, samplingVars>>

\* A configuration's own encoder is taken as it is, and a registry made for it
\* alone holds the two default encoders.
Defaults == [name \in {"console", "json"} |-> name]

\* The name, or the candidates in the order of EnableJSON.  Both defaults are
\* registered by now, so the first candidate is found.
Resolve(c, encoders) ==
    LET name == IF c.encoderName # Unset THEN c.encoderName
                ELSE IF c.json THEN "json" ELSE "console"
    IN IF name \in DOMAIN encoders THEN encoders[name] ELSE Unset

Resolved(g, e) ==
    IF e = Unset THEN Fail(g, "encoder") /\ UNCHANGED encoder
    ELSE /\ pc' = [pc EXCEPT ![g] = "finish"]
         /\ encoder' = [encoder EXCEPT ![g] = e]
         /\ UNCHANGED cause

ResolveAlone(g) ==
    /\ pc[g] = "encoder"
    /\ cfg[g].encoder # Unset \/ cfg[g].registry = "own"
    /\ Resolved(g, IF cfg[g].encoder # Unset THEN cfg[g].encoder ELSE Resolve(cfg[g], Defaults))
    /\ UNCHANGED <<cfg, rulesOf, document, asked, setupVars, samplingVars, faults>>

\* registerDefaultEncoders looks for each default and registers it if it was not
\* there, in two critical sections.
LookUp(g, label, name, missing, found) ==
    /\ pc[g] = label
    /\ cfg[g].encoder = Unset /\ cfg[g].registry = "shared"
    /\ pc' = [pc EXCEPT ![g] = IF name \in DOMAIN registry THEN found ELSE missing]
    /\ UNCHANGED <<cfg, rulesOf, document, asked, cause, encoder, setupVars, samplingVars, faults>>

Register(name, e) == registry' = Over([n \in {name} |-> e], registry)

\* Mutant: a default replaces what was registered since the look.
RegisterDefault_Replaces(g, label, name, next) ==
    /\ pc[g] = label
    /\ Register(name, name)
    /\ pc' = [pc EXCEPT ![g] = next]
    /\ UNCHANGED <<cfg, rulesOf, document, asked, cause, encoder, builder, builderMap, changes,
                   ruleMaps, registrations, samplingVars, faults>>

RegisterDefault(g, label, name, next) ==
    /\ pc[g] = label
    /\ IF name \in DOMAIN registry
       THEN Fail(g, "taken") /\ UNCHANGED registry
       ELSE /\ Register(name, name)
            /\ pc' = [pc EXCEPT ![g] = next]
            /\ UNCHANGED cause
    /\ UNCHANGED <<cfg, rulesOf, document, asked, encoder, builder, builderMap, changes,
                   ruleMaps, registrations, samplingVars, faults>>

EnsureEncoderRegistry(g) ==
    \/ LookUp(g, "encoder", "console", "add console", "look json")
    \/ RegisterDefault(g, "add console", "console", "look json")
    \/ LookUp(g, "look json", "json", "add json", "resolve")
    \/ RegisterDefault(g, "add json", "json", "resolve")

ResolveShared(g) ==
    /\ pc[g] = "resolve"
    /\ Resolved(g, Resolve(cfg[g], registry))
    /\ UNCHANGED <<cfg, rulesOf, document, asked, setupVars, samplingVars, faults>>

\* The sampler, the async writer and the hooks, whose names must differ.
Finish(g) ==
    /\ pc[g] = "finish"
    /\ LET rules == NewLogSampler(cfg[g].sampling, ruleMaps[rulesOf[g]]) IN
       IF IsInjective(cfg[g].hooks)
       THEN /\ pc' = [pc EXCEPT ![g] = "ready"]
            /\ sampler' = [sampler EXCEPT ![g] = rules]
            /\ counters' = [counters EXCEPT ![g] = [k \in DOMAIN rules |-> 0]]
            /\ UNCHANGED cause
       ELSE Fail(g, "hook") /\ UNCHANGED <<sampler, counters>>
    /\ UNCHANGED <<cfg, rulesOf, document, asked, encoder, setupVars, call, seen, passed, calls, faults>>

\* The program's own Register, at any time; under a name that is taken it fails.
RegisterEncoder(name) ==
    /\ registrations > 0 /\ registrations' = registrations - 1 /\ NobodyLogs
    /\ name \notin DOMAIN registry
    /\ Register(name, "custom")
    /\ UNCHANGED <<builder, builderMap, changes, ruleMaps, makerVars, samplingVars, faults>>

-----------------------------------------------------------------------------
(* Allow, under concurrent calls. *)

\* Add(1) on the counter of the level's rule, unless no rule is asked.  Calls of a
\* logger without a sampler all pass and leave no trace: they are left out.
Count(t, g, level) ==
    /\ call[t] = Idle /\ calls > 0 /\ calls' = calls - 1
    /\ pc[g] = "ready" /\ \A h \in Makers : Ended(h)
    /\ sampler[g] # << >>
    /\ LET k == RuleKey(sampler[g], level) IN
       IF AlwaysAllowed(sampler[g], level)
       THEN /\ seen' = [seen EXCEPT ![g][level] = @ + 1]
            /\ passed' = [passed EXCEPT ![g][level] = @ + 1]
            /\ UNCHANGED <<counters, call>>
       ELSE /\ counters' = [counters EXCEPT ![g][k] = @ + 1]
            /\ call' = [call EXCEPT ![t] = [logger |-> g, level |-> level,
                                            count |-> counters[g][k] + 1]]
            /\ UNCHANGED <<seen, passed>>
    /\ UNCHANGED <<sampler, setupVars, makerVars, faults>>

Verdict(t, count) ==
    LET g == call[t].logger
        l == call[t].level
        rule == sampler[g][RuleKey(sampler[g], l)]
    IN /\ seen' = [seen EXCEPT ![g][l] = @ + 1]
       /\ passed' = IF Allowed(rule, count) THEN [passed EXCEPT ![g][l] = @ + 1] ELSE passed
       /\ call' = [call EXCEPT ![t] = Idle]
       /\ UNCHANGED <<sampler, counters, calls, setupVars, makerVars, faults>>

\* Mutant: the counter is read again after it was moved.
Decide_ReadsAgain(t) ==
    /\ call[t] # Idle
    /\ LET g == call[t].logger IN
       Verdict(t, counters[g][RuleKey(sampler[g], call[t].level)])

Decide(t) ==
    /\ call[t] # Idle
    /\ Verdict(t, call[t].count)

-----------------------------------------------------------------------------
UseBuilder ==
    \/ \E settings \in Changes : With(settings)
    \/ WithHook("audit")
    \/ \E r \in SamplingRules : WithSamplingRule(r[1], r[2])

Make(g) ==
    \/ Build(g) \/ TakePreset(g) \/ Load(g)
    \/ NewAdapter(g)
    \/ ResolveAlone(g) \/ EnsureEncoderRegistry(g) \/ ResolveShared(g)
    \/ Finish(g)

Log(t) ==
    \/ \E g \in Makers, l \in CallLevels : Count(t, g, l)
    \/ Decide(t)

Next ==
    \/ UseBuilder
    \/ \E name \in {"json", "short"} : RegisterEncoder(name)
    \/ \E g \in Makers : Make(g)
    \/ \E t \in Callers : Log(t)

Spec == Init /\ [][Next]_vars

-----------------------------------------------------------------------------
IsRules(rules, keys) ==
    DOMAIN rules \subseteq keys /\ \A k \in DOMAIN rules : rules[k] \in Thresholds
Counts == [CallLevels -> Nat]
Labels == {"idle", "configured", "encoder", "add console", "look json", "add json",
           "resolve", "finish", "ready", "failed"}
Causes == {NoError, "read", "open", "level", "output", "encoder", "taken", "hook", "strategy", "mode",
           "colours", "rules"}

SetupTypes ==
    /\ builder \in Configs /\ builderMap \in BOOLEAN /\ changes \in 0 .. MaxChanges
    /\ DOMAIN ruleMaps = Makers \cup {"builder", "none"}
    /\ \A o \in DOMAIN ruleMaps : IsRules(ruleMaps[o], AllLevels)
    /\ registrations \in 0 .. MaxRegistrations
    /\ \A name \in DOMAIN registry : registry[name] \in {"console", "json", "custom"}
MakerTypes ==
    /\ pc \in [Makers -> Labels] /\ cfg \in [Makers -> Configs]
    /\ rulesOf \in [Makers -> Makers \cup {"builder", "none"}]
    /\ document \in [Makers -> Documents \cup {Nothing}]
    /\ DOMAIN asked = Makers
    /\ \A g \in Makers :
          asked[g].sampling \in SamplingSettings /\ IsRules(asked[g].rules, AllLevels)
    /\ cause \in [Makers -> Causes] /\ encoder \in [Makers -> Strings]
SamplingTypes ==
    /\ DOMAIN sampler = Makers /\ DOMAIN counters = Makers
    /\ \A g \in Makers :
          /\ IsRules(sampler[g], AllLevels \cup {DefaultRule})
          /\ counters[g] \in [DOMAIN sampler[g] -> Nat]
    /\ call \in [Callers -> {Idle} \cup [logger : Makers, level : CallLevels, count : Nat]]
    /\ seen \in [Makers -> Counts] /\ passed \in [Makers -> Counts]
    /\ calls \in 0 .. MaxCalls
TypeOK == SetupTypes /\ MakerTypes /\ SamplingTypes /\ faults \in 0 .. MaxFaults

\* What the environment says holds, whatever the file says and wherever it says
\* it: a configuration read with FromFile has the value that FromEnv gives for
\* every setting that the environment names and the model keeps, and so has the
\* logger made from it, but for what NewAdapter adjusts.  A sampling rule has the
\* parts the environment names, for a level the file does not speak of too; what
\* neither says of it, it has from the environment's sampling settings.  The two
\* encoder keys share a variable.
KeyOf ==
    [level |-> <<"level">>, json |-> <<"enable_json">>, async |-> <<"enable_async">>,
     strategy |-> <<"async", "overflow_strategy">>, encoderName |-> <<"encoder_name">>,
     path |-> <<"file", "path">>, maxSize |-> <<"file", "max_size">>,
     mode |-> <<"file", "file_mode">>, colour |-> <<"color", "enable">>,
     forceTTY |-> <<"color", "force_tty">>]
SamplingKeyOf ==
    [enabled |-> <<"sampling", "enabled">>, initial |-> <<"sampling", "initial">>,
     thereafter |-> <<"sampling", "thereafter">>,
     perLevel |-> <<"sampling", "per_level_threshold">>]

\* A size that is not positive becomes 0, and colours need a terminal.
Adjusted(field, c) ==
    \/ field = "maxSize" /\ c.maxSize <= 0
    \/ field = "colour" /\ c.colour

RuleOverrides(env, file, rules, alone) ==
    \A name \in ToSet(LevelNames), part \in RuleParts :
        LET key == RuleKeyOf(name, part)
            l == LevelFromString[name]
        IN /\ key \in DOMAIN env => l \in DOMAIN rules /\ rules[l][part] = env[key]
           /\ /\ part # "enabled" /\ l \in DOMAIN rules
              /\ key \notin DOMAIN env /\ key \notin DOMAIN file /\ SamplingKeyOf[part] \in DOMAIN env
              => rules[l][part] = alone.sampling[part]

EnvOverridesFile ==
    \A g \in Makers : document[g] # Nothing /\ pc[g] \notin {"idle", "failed"} =>
        LET env == document[g].env
            alone == ApplyRaw(Raw(env, << >>))
        IN /\ \A field \in DOMAIN KeyOf :
                 KeyOf[field] \in DOMAIN env /\ (pc[g] = "configured" \/ ~Adjusted(field, alone))
                     => cfg[g][field] = alone[field]
           /\ <<"output">> \in DOMAIN env => cfg[g].sinks[1] = alone.sinks[1]
           /\ \A part \in DOMAIN SamplingKeyOf :
                 SamplingKeyOf[part] \in DOMAIN env => cfg[g].sampling[part] = alone.sampling[part]
           /\ RuleOverrides(env, document[g].file, ruleMaps[g], alone)

\* A logger encodes with what its configuration asked for: its own encoder, the
\* named one, or the one for its format, as the registry has it.  A name the
\* program registered itself is never replaced by a default.
Wanted(c) == IF c.encoderName # Unset THEN c.encoderName ELSE IF c.json THEN "json" ELSE "console"
EncoderAsWanted(g) ==
    encoder[g] = IF cfg[g].encoder # Unset THEN cfg[g].encoder
                 ELSE IF cfg[g].registry = "own" THEN Wanted(cfg[g])
                 ELSE registry[Wanted(cfg[g])]
EncoderMatches == \A g \in Makers : pc[g] = "ready" => EncoderAsWanted(g)

\* Somebody else may be between the look and the registration.
Rivals(g) ==
    \/ registrations < MaxRegistrations
    \/ \E h \in Makers \ {g} : pc[h] # "idle" /\ cfg[h].registry = "shared"

\* What a maker ends up with can log: it has a level, an output, an encoder and
\* a strategy that the packages below know, and a sampler when it is to sample,
\* whose rules in use let entries through at first and divide by no zero later.
CanLog(g) ==
    /\ cfg[g].level \in AllLevels
    /\ cfg[g].sinks # << >>
    /\ encoder[g] # Unset
    /\ cfg[g].strategy \in {"drop_newest", "drop_oldest", "block", "handoff"}
    /\ sampler[g] # << >> <=> asked[g].sampling.enabled
    /\ \A k \in DOMAIN sampler[g] :
          sampler[g][k].enabled => sampler[g][k].initial > 0 /\ sampler[g][k].thereafter > 0

\* A logger is refused for a reason: a setting the loader does not know, a file
\* that cannot be read or opened, an encoder nobody registered, two hooks of one
\* name, or a rival on a shared registry.  Above all, what the loader accepts has
\* a level and an output that NewAdapter accepts too.
RefusedForCause(g) ==
    LET raw == Raw(document[g].env, document[g].file) IN
    \/ /\ cause[g] \in {"level", "strategy", "mode", "output", "colours", "rules"}
       /\ cause[g] = Refusal(raw)
    \/ cause[g] = "read" /\ document[g].file # << >> /\ faults < MaxFaults
    \/ cause[g] = "open" /\ (cfg[g].path # Unset \/ OpensOutput(raw)) /\ faults < MaxFaults
    \/ cause[g] = "output" /\ document[g] = Nothing /\ cfg[g].sinks = << >>
    \/ cause[g] = "level" /\ document[g] = Nothing /\ cfg[g].level \notin AllLevels
    \/ cause[g] = "encoder" /\ cfg[g].encoderName \notin {Unset, "json", "console"}
    \/ cause[g] = "hook" /\ Len(cfg[g].hooks) > 1
    \/ cause[g] = "taken" /\ cfg[g].registry = "shared" /\ Rivals(g)

\* Making a logger ends with one that can log, or with an error that has a cause.
ReadyOrRefused ==
    \A g \in Makers :
        /\ pc[g] = "ready" => CanLog(g)
        /\ pc[g] = "failed" => RefusedForCause(g)

\* What makes these inductive: a loaded configuration is what applyRaw makes of
\* the document, and then what NewAdapter makes of that; a default that a maker
\* looked for stays in the registry, and if it appears between its look and its
\* registration there is a rival.
LoadedInv(g) ==
    document[g] # Nothing /\ pc[g] \notin {"idle", "failed"} =>
        LET raw == Raw(document[g].env, document[g].file) IN
        /\ Refusal(raw) = NoError
        /\ cfg[g] = IF pc[g] = "configured" THEN ApplyRaw(raw)
                    ELSE Validated(PreparedOutput(ApplyRaw(raw)))
        /\ ruleMaps[g] = LoadedRules(raw)
AcceptedInv(g) ==
    pc[g] \notin {"idle", "configured", "failed"} =>
        /\ cfg[g].level \in AllLevels /\ cfg[g].sinks # << >>
        /\ cfg[g].strategy \in {"drop_newest", "drop_oldest", "block", "handoff"}
LookInv(g) ==
    /\ pc[g] \in {"add console", "look json", "add json", "resolve"} =>
        cfg[g].encoder = Unset /\ cfg[g].registry = "shared"
    /\ pc[g] \in {"look json", "add json", "resolve"} => "console" \in DOMAIN registry
    /\ pc[g] = "resolve" => "json" \in DOMAIN registry
    /\ pc[g] = "add console" /\ "console" \in DOMAIN registry => Rivals(g)
    /\ pc[g] = "add json" /\ "json" \in DOMAIN registry => Rivals(g)
EncoderInv(g) ==
    pc[g] \in {"finish", "ready"} =>
        /\ encoder[g] # Unset /\ EncoderAsWanted(g)
        /\ cfg[g].encoder = Unset /\ cfg[g].registry = "shared" => Wanted(cfg[g]) \in DOMAIN registry
RefusedInv(g) == pc[g] = "failed" => RefusedForCause(g)
MakerInv(g) ==
    LoadedInv(g) /\ AcceptedInv(g) /\ LookInv(g) /\ EncoderInv(g) /\ RefusedInv(g)
MakersInv == \A g \in Makers : MakerInv(g)

\* The rule asked for at a level, and the levels that share its counter.
FirstPositive(values) ==
    values[CHOOSE i \in DOMAIN values : values[i] > 0 /\ \A j \in 1 .. i - 1 : values[j] <= 0]
AskedRule(g, l) ==
    LET s == asked[g].sampling
        r == IF l \in DOMAIN asked[g].rules THEN asked[g].rules[l]
             ELSE [enabled |-> TRUE, initial |-> 0, thereafter |-> 0]
    IN [enabled |-> s.enabled /\ l < WarnLevel /\ r.enabled,
        initial |-> FirstPositive(<<r.initial, s.initial, DefaultSamplingInitial>>),
        thereafter |-> FirstPositive(<<r.thereafter, s.thereafter, DefaultSamplingThereafter>>)]
Together(g, l) ==
    IF asked[g].sampling.perLevel \/ l \in DOMAIN asked[g].rules \/ l >= WarnLevel THEN {l}
    ELSE {k \in CallLevels : k < WarnLevel /\ k \notin DOMAIN asked[g].rules}
At(counts, levels, l) == IF l \in levels THEN counts[l] ELSE 0
Sum(counts, levels) ==
    At(counts, levels, 0) + At(counts, levels, 1) + At(counts, levels, 2)
        + At(counts, levels, 3) + At(counts, levels, 4) + At(counts, levels, 5)

\* The share of the entries of a level, or of the levels that share a rule, that
\* is let through is the one the program asked for when it made the logger,
\* however calls overlap and whatever it did with the builder since; warnings
\* and errors all pass.
SamplingShare ==
    (\A t \in Callers : call[t] = Idle) =>
        \A g \in Makers : pc[g] = "ready" =>
            \A l \in CallLevels :
                Sum(passed[g], Together(g, l))
                    = Share(AskedRule(g, l), Sum(seen[g], Together(g, l)))

\* What makes SamplingShare inductive: the counter of a rule is the calls that
\* ended and those that have still to decide, and each of these knows which share
\* of the count is its own.
Sampled(g, k) ==
    {l \in CallLevels : ~AlwaysAllowed(sampler[g], l) /\ RuleKey(sampler[g], l) = k}
Deciding(g, k) == {t \in Callers : call[t].logger = g /\ call[t].level \in Sampled(g, k)}
Passing(g, k) == {t \in Deciding(g, k) : Allowed(sampler[g][k], call[t].count)}
AskedInv(g) ==
    pc[g] \in Labels \ {"idle", "configured", "ready", "failed"} =>
        asked[g] = [sampling |-> cfg[g].sampling, rules |-> ruleMaps[rulesOf[g]]]
RulesInv(g) ==
    sampler[g] = IF pc[g] = "ready" THEN NewLogSampler(asked[g].sampling, asked[g].rules) ELSE << >>
ShareInv(g, k) ==
    /\ counters[g][k] = Sum(seen[g], Sampled(g, k)) + Cardinality(Deciding(g, k))
    /\ Share(sampler[g][k], counters[g][k])
          = Sum(passed[g], Sampled(g, k)) + Cardinality(Passing(g, k))
CountInv(g) ==
    /\ \A l \in CallLevels :
        /\ sampler[g] = << >> => seen[g][l] = 0 /\ passed[g][l] = 0
        /\ sampler[g] # << >> /\ AlwaysAllowed(sampler[g], l) => passed[g][l] = seen[g][l]
    /\ \A k \in DOMAIN sampler[g] : ShareInv(g, k)
CallInv(t) ==
    call[t] # Idle => LET s == sampler[call[t].logger] IN
        s # << >> /\ ~AlwaysAllowed(s, call[t].level)
SamplingInv ==
    /\ \A g \in Makers : AskedInv(g) /\ RulesInv(g) /\ CountInv(g)
    /\ \A t \in Callers : CallInv(t)
=============================================================================
