---------------------------- MODULE SetupProofs ----------------------------
(* Theorems about Setup, for every set of goroutines and every documents,   *)
(* presets, builder calls and rules of the kinds that the code can meet.    *)
EXTENDS Setup, FiniteSetTheorems, TLAPS

-----------------------------------------------------------------------------
(* The configurations that the loader makes. *)

LEMMA LevelNumbers ==
    \A n \in DOMAIN LevelFromString : LevelFromString[n] \in AllLevels
<1>. SUFFICES ASSUME NEW n \in DOMAIN LevelFromString PROVE LevelFromString[n] \in AllLevels
  OBVIOUS
<1>1. /\ n \in ToSet(LevelNames)
      /\ LevelFromString[n] = (CHOOSE i \in DOMAIN LevelNames : LevelNames[i] = n) - 1
  BY DEF LevelFromString
<1>2. \E i \in DOMAIN LevelNames : LevelNames[i] = n
  BY <1>1 DEF ToSet
<1>3. (CHOOSE i \in DOMAIN LevelNames : LevelNames[i] = n) \in DOMAIN LevelNames
  BY <1>2
<1>4. DOMAIN LevelNames = 1 .. 6
  BY DEF LevelNames
<1>. QED
  BY <1>1, <1>3, <1>4 DEF AllLevels

\* What decoding a document of the program gives.
Decodes(raw) == \A key \in DOMAIN raw : raw[key] \in Decoded(key)

LEMMA RawValues ==
    ASSUME NEW env, NEW file
    PROVE  /\ \A key \in AllKeys : Variable(key) \in DOMAIN env =>
                 key \in DOMAIN Raw(env, file) /\ Raw(env, file)[key] = env[Variable(key)]
           /\ \A key \in DOMAIN Raw(env, file) :
                 \/ key \in AllKeys /\ Variable(key) \in DOMAIN env
                 \/ /\ key \in DOMAIN file /\ Raw(env, file)[key] = file[key]
                    /\ ~(key \in AllKeys /\ Variable(key) \in DOMAIN env)
           /\ DOMAIN file \subseteq DOMAIN Raw(env, file)
BY DEF Raw, Over

LEMMA RawDecodes ==
    ASSUME NEW source \in Documents
    PROVE  Decodes(Raw(source.env, source.file))
BY SetupAssumption, RawValues DEF Decodes

LEMMA SettingDecodes ==
    ASSUME NEW raw, Decodes(raw), NEW key, NEW T, Decoded(key) \subseteq T, NEW default \in T
    PROVE  Setting(raw, key, default) \in T
BY DEF Setting, Decodes

LEMMA KeyTypes ==
    /\ \A key \in {<<"enable_json">>, <<"enable_async">>, <<"color", "enable">>,
                   <<"color", "force_tty">>, <<"sampling", "enabled">>,
                   <<"sampling", "per_level_threshold">>} : Decoded(key) = BOOLEAN
    /\ \A key \in {<<"sampling", "initial">>, <<"sampling", "thereafter">>,
                   <<"file", "max_size">>} : Decoded(key) = Int
    /\ \A key \in {<<"level">>, <<"async", "overflow_strategy">>, <<"encoder_name">>,
                   <<"encoder", "name">>, <<"output">>, <<"file", "path">>,
                   <<"file", "file_mode">>} : Decoded(key) \subseteq Strings
    /\ \A name : /\ Decoded(RuleKeyOf(name, "enabled")) = BOOLEAN
                 /\ Decoded(RuleKeyOf(name, "initial")) = Int
                 /\ Decoded(RuleKeyOf(name, "thereafter")) = Int
BY DEF Decoded, Flags, Numbers, RuleKeyOf

LEMMA Changed ==
    ASSUME NEW settings \in Changes, NEW c \in Configs
    PROVE  Over(settings, c) \in Configs
<1>1. Over(settings, DefaultConfig) \in Configs /\ DOMAIN settings \subseteq DOMAIN DefaultConfig
  BY SetupAssumption
<1>2. DOMAIN c = DOMAIN DefaultConfig
  BY DEF Configs, DefaultConfig
<1>. QED
  BY <1>1, <1>2 DEF Configs, Over

\* The stages of applyRaw.
Refusals == {"level", "strategy", "mode", "output", "colours", "rules"}

LEMMA LeastOfSix ==
    ASSUME NEW S \in SUBSET (1 .. 6), S # {}
    PROVE  \E i \in S : \A j \in S : i <= j
<1>1. CASE 1 \in S
  BY <1>1
<1>2. CASE 1 \notin S /\ 2 \in S
  BY <1>2
<1>3. CASE 1 \notin S /\ 2 \notin S /\ 3 \in S
  BY <1>3
<1>4. CASE 1 \notin S /\ 2 \notin S /\ 3 \notin S /\ 4 \in S
  BY <1>4
<1>5. CASE 1 \notin S /\ 2 \notin S /\ 3 \notin S /\ 4 \notin S /\ 5 \in S
  BY <1>5
<1>6. CASE S \cap {1, 2, 3, 4, 5} = {}
  <2>1. \A j \in S : j \in 1 .. 6 /\ j \notin {1, 2, 3, 4, 5}
    BY <1>6
  <2>2. \A j \in S : j = 6
    BY <2>1
  <2>3. PICK i \in S : TRUE
    OBVIOUS
  <2>4. \A j \in S : i <= j
    BY <2>2, <2>3
  <2>. QED
    BY <2>4
<1>. QED
  BY <1>1, <1>2, <1>3, <1>4, <1>5, <1>6

LEMMA Refused ==
    ASSUME NEW raw
    PROVE  /\ Refusal(raw) \in Refusals \cup {NoError}
           /\ Refusal(raw) = NoError => \A i \in 1 .. 6 : ~Stages(raw)[i][2]
<1>. DEFINE stages == Stages(raw)
            failed == {i \in DOMAIN stages : stages[i][2]}
            first == CHOOSE i \in failed : \A j \in failed : i <= j
<1>1. DOMAIN stages = 1 .. 6 /\ \A i \in 1 .. 6 : stages[i][1] \in Refusals
  BY DEF Stages, Refusals
<1>2. failed # {} => first \in failed
  <2>. SUFFICES ASSUME failed # {} PROVE \E i \in failed : \A j \in failed : i <= j
    OBVIOUS
  <2>1. failed \subseteq 1 .. 6
    BY <1>1
  <2>. HIDE DEF failed
  <2>. QED
    BY <2>1, LeastOfSix
<1>3. Refusal(raw) = IF failed = {} THEN NoError ELSE stages[first][1]
  BY DEF Refusal
<1>4. NoError \notin Refusals
  BY DEF Refusals, NoError
<1>. HIDE DEF first, stages
<1>. QED
  BY <1>1, <1>2, <1>3, <1>4 DEF stages

LEMMA Accepted ==
    ASSUME NEW raw, Refusal(raw) = NoError
    PROVE  /\ IsLevelName(Setting(raw, <<"level">>, "info"))
           /\ Setting(raw, <<"async", "overflow_strategy">>, "block") \in DOMAIN ParseOverflowStrategy
           /\ Setting(raw, <<"file", "file_mode">>, "0600") \in DOMAIN ParseFileMode
           /\ RuleNames(raw) \subseteq DOMAIN LevelFromString
<1>1. \A i \in 1 .. 6 : ~Stages(raw)[i][2]
  BY Refused
<1>2. ~Stages(raw)[1][2] /\ ~Stages(raw)[2][2] /\ ~Stages(raw)[3][2] /\ ~Stages(raw)[6][2]
  BY <1>1
<1>. QED
  BY <1>2 DEF Stages

LEMMA LoadedSamplingType ==
    ASSUME NEW raw, Decodes(raw)
    PROVE  LoadedSampling(raw) \in SamplingSettings
<1>1. /\ DefaultConfig.sampling.enabled \in Decoded(<<"sampling", "enabled">>)
      /\ DefaultSamplingInitial \in Decoded(<<"sampling", "initial">>)
      /\ DefaultSamplingThereafter \in Decoded(<<"sampling", "thereafter">>)
      /\ FALSE \in Decoded(<<"sampling", "per_level_threshold">>)
  <2>1. DefaultConfig.sampling.enabled \in BOOLEAN
    BY DEF DefaultConfig
  <2>2. DefaultSamplingInitial \in Int /\ DefaultSamplingThereafter \in Int
    BY SamplingDefaultsAssumption
  <2>. QED
    BY <2>1, <2>2, KeyTypes
<1>2. /\ LoadedSampling(raw).enabled \in BOOLEAN /\ LoadedSampling(raw).initial \in Int
      /\ LoadedSampling(raw).thereafter \in Int /\ LoadedSampling(raw).perLevel \in BOOLEAN
  BY <1>1, SettingDecodes, KeyTypes DEF LoadedSampling
<1>. QED
  BY <1>2 DEF LoadedSampling, SamplingSettings

LEMMA LoadedRulesType ==
    ASSUME NEW raw, Decodes(raw), Refusal(raw) = NoError
    PROVE  IsRules(LoadedRules(raw), AllLevels)
<1>. DEFINE sampling == LoadedSampling(raw)
            Part(l, part, default) == Setting(raw, RuleKeyOf(LevelNames[l + 1], part), default)
            levels == {LevelFromString[n] : n \in RuleNames(raw)}
            rule(l) == [enabled |-> Part(l, "enabled", TRUE),
                        initial |-> Part(l, "initial", sampling.initial),
                        thereafter |-> Part(l, "thereafter", sampling.thereafter)]
<1>1. LoadedRules(raw) = [l \in levels |-> rule(l)]
  BY DEF LoadedRules
<1>2. levels \subseteq AllLevels
  BY LevelNumbers, Accepted
<1>3. ASSUME NEW l \in levels PROVE rule(l) \in Thresholds
  <2>. DEFINE name == LevelNames[l + 1]
  <2>1. sampling.initial \in Int /\ sampling.thereafter \in Int
    BY LoadedSamplingType DEF SamplingSettings
  <2>2. /\ TRUE \in Decoded(RuleKeyOf(name, "enabled"))
        /\ sampling.initial \in Decoded(RuleKeyOf(name, "initial"))
        /\ sampling.thereafter \in Decoded(RuleKeyOf(name, "thereafter"))
    BY <2>1, KeyTypes
  <2>3. /\ Part(l, "enabled", TRUE) \in BOOLEAN
        /\ Part(l, "initial", sampling.initial) \in Int
        /\ Part(l, "thereafter", sampling.thereafter) \in Int
    BY <2>2, KeyTypes, SettingDecodes
  <2>. HIDE DEF Part
  <2>. QED
    BY <2>3 DEF Thresholds
<1>. HIDE DEF rule, levels
<1>. QED
  BY <1>1, <1>2, <1>3 DEF IsRules

LEMMA ApplyRawType ==
    ASSUME NEW raw, Decodes(raw), Refusal(raw) = NoError
    PROVE  ApplyRaw(raw) \in Configs /\ ApplyRaw(raw).level \in AllLevels
                /\ ApplyRaw(raw).sinks # << >>
<1>1. ApplyRaw(raw).level \in AllLevels
  BY Accepted, LevelNumbers DEF ApplyRaw, IsLevelName, LevelOf
<1>2. /\ DefaultConfig.json \in Decoded(<<"enable_json">>)
      /\ DefaultConfig.async \in Decoded(<<"enable_async">>)
      /\ DefaultConfig.colour \in Decoded(<<"color", "enable">>)
      /\ DefaultConfig.forceTTY \in Decoded(<<"color", "force_tty">>)
      /\ DefaultMaxFileSize \in Decoded(<<"file", "max_size">>)
  BY KeyTypes DEF DefaultConfig, DefaultMaxFileSize
<1>3. "stdout" \in Strings /\ Unset \in Strings
  BY StringsAssumption DEF Unset
<1>4. EncoderName(raw) \in Strings
  <2>1. Setting(raw, <<"encoder_name">>, Unset) \in Strings
    BY <1>3, SettingDecodes, KeyTypes
  <2>. QED
    BY <2>1, SettingDecodes, KeyTypes DEF EncoderName
<1>5. /\ Setting(raw, <<"enable_json">>, DefaultConfig.json) \in BOOLEAN
      /\ Setting(raw, <<"enable_async">>, DefaultConfig.async) \in BOOLEAN
      /\ Setting(raw, <<"color", "enable">>, DefaultConfig.colour) \in BOOLEAN
      /\ Setting(raw, <<"color", "force_tty">>, DefaultConfig.forceTTY) \in BOOLEAN
      /\ Setting(raw, <<"file", "max_size">>, DefaultMaxFileSize) \in Int
  BY <1>2, SettingDecodes, KeyTypes
<1>6. /\ Setting(raw, <<"output">>, "stdout") \in Strings
      /\ Setting(raw, <<"file", "path">>, Unset) \in Strings
  BY <1>3, SettingDecodes, KeyTypes
<1>7. ParseOverflowStrategy[Setting(raw, <<"async", "overflow_strategy">>, "drop_newest")] \in Strings
  BY Accepted, StringsAssumption DEF ParseOverflowStrategy, Setting
<1>8. ApplyRaw(raw).mode \in Int
  BY Accepted DEF ApplyRaw, ParseFileMode, Setting, LogFilePermissions
<1>9. <<Setting(raw, <<"output">>, "stdout")>> \in Seq(Strings) /\ << >> \in Seq(Strings)
  BY <1>6
<1>10. AllLevels \subseteq Int
  BY DEF AllLevels
<1>11. Unset \in Strings
  BY StringsAssumption DEF Unset
<1>. QED
  BY <1>1, <1>4, <1>5, <1>6, <1>7, <1>8, <1>9, <1>10, <1>11, LoadedSamplingType
  DEF ApplyRaw, Configs

-----------------------------------------------------------------------------
(* The environment and the file. *)

LEMMA EnvWins ==
    ASSUME NEW env, NEW file
    PROVE  LET raw == Raw(env, file)
               alone == Raw(env, << >>)
           IN /\ <<"encoder_name">> \in DOMAIN env => EncoderName(raw) = EncoderName(alone)
              /\ \A key \in AllKeys : Variable(key) \in DOMAIN env =>
                    /\ key \in DOMAIN raw /\ key \in DOMAIN alone
                    /\ raw[key] = env[Variable(key)] /\ alone[key] = raw[key]
                    /\ \A default : Setting(raw, key, default) = Setting(alone, key, default)
<1>1. \A key \in AllKeys : Variable(key) \in DOMAIN env =>
        /\ key \in DOMAIN Raw(env, file) /\ Raw(env, file)[key] = env[Variable(key)]
        /\ key \in DOMAIN Raw(env, << >>) /\ Raw(env, << >>)[key] = env[Variable(key)]
  BY RawValues
<1>2. \A key \in AllKeys : \A default : Variable(key) \in DOMAIN env =>
        Setting(Raw(env, file), key, default) = Setting(Raw(env, << >>), key, default)
  BY <1>1 DEF Setting
<1>3. <<"encoder_name">> \in DOMAIN env => EncoderName(Raw(env, file)) = EncoderName(Raw(env, << >>))
  <2>1. <<"encoder", "name">> \in AllKeys /\ Variable(<<"encoder", "name">>) = <<"encoder_name">>
    BY DEF AllKeys, Variable
  <2>2. <<"encoder_name">> \in DOMAIN env =>
            /\ EncoderName(Raw(env, file)) = env[<<"encoder_name">>]
            /\ EncoderName(Raw(env, << >>)) = env[<<"encoder_name">>]
    BY <1>1, <2>1 DEF EncoderName, Setting
  <2>. QED
    BY <2>2
<1>. QED
  BY <1>1, <1>2, <1>3

LEMMA OwnVariables ==
    /\ \A field \in DOMAIN KeyOf : KeyOf[field] \in AllKeys /\ Variable(KeyOf[field]) = KeyOf[field]
    /\ \A part \in DOMAIN SamplingKeyOf :
          SamplingKeyOf[part] \in AllKeys /\ Variable(SamplingKeyOf[part]) = SamplingKeyOf[part]
    /\ <<"output">> \in AllKeys /\ Variable(<<"output">>) = <<"output">>
    /\ \A name \in ToSet(LevelNames), part \in RuleParts :
          RuleKeyOf(name, part) \in AllKeys /\ Variable(RuleKeyOf(name, part)) = RuleKeyOf(name, part)
<1>1. DOMAIN KeyOf = {"level", "json", "async", "strategy", "encoderName", "path", "maxSize",
                      "mode", "colour", "forceTTY"}
  BY DEF KeyOf
<1>2. \A field \in DOMAIN KeyOf : KeyOf[field] \in AllKeys /\ KeyOf[field] # <<"encoder", "name">>
  BY <1>1 DEF KeyOf, AllKeys
<1>3. DOMAIN SamplingKeyOf = {"enabled", "initial", "thereafter", "perLevel"}
  BY DEF SamplingKeyOf
<1>4. \A part \in DOMAIN SamplingKeyOf :
        SamplingKeyOf[part] \in AllKeys /\ SamplingKeyOf[part] # <<"encoder", "name">>
  BY <1>3 DEF SamplingKeyOf, AllKeys
<1>5. \A name \in ToSet(LevelNames), part \in RuleParts :
        RuleKeyOf(name, part) \in AllKeys /\ RuleKeyOf(name, part) # <<"encoder", "name">>
  BY DEF AllKeys, RuleKeyOf
<1>6. <<"output">> \in AllKeys /\ <<"output">> # <<"encoder", "name">>
  BY DEF AllKeys
<1>. QED
  BY <1>2, <1>4, <1>5, <1>6 DEF Variable

\* What FromEnv alone gives a setting, FromFile gives it.
LEMMA EnvFields ==
    ASSUME NEW env, NEW file
    PROVE  LET with == ApplyRaw(Raw(env, file))
               alone == ApplyRaw(Raw(env, << >>))
           IN /\ \A field \in DOMAIN KeyOf : KeyOf[field] \in DOMAIN env => with[field] = alone[field]
              /\ <<"output">> \in DOMAIN env => with.sinks = alone.sinks
              /\ \A part \in DOMAIN SamplingKeyOf :
                    SamplingKeyOf[part] \in DOMAIN env => with.sampling[part] = alone.sampling[part]
<1>. DEFINE raw == Raw(env, file)
            only == Raw(env, << >>)
            with == ApplyRaw(raw)
            alone == ApplyRaw(only)
<1>1. \A key \in AllKeys : Variable(key) = key /\ key \in DOMAIN env =>
        /\ key \in DOMAIN raw /\ key \in DOMAIN only /\ only[key] = raw[key]
        /\ \A default : Setting(raw, key, default) = Setting(only, key, default)
  BY EnvWins
<1>2. <<"encoder_name">> \in DOMAIN env => EncoderName(raw) = EncoderName(only)
  BY EnvWins
<1>. HIDE DEF raw, only
<1>3. ASSUME NEW field \in DOMAIN KeyOf, KeyOf[field] \in DOMAIN env
      PROVE  with[field] = alone[field]
  <2>1. /\ KeyOf[field] \in DOMAIN raw /\ KeyOf[field] \in DOMAIN only
        /\ only[KeyOf[field]] = raw[KeyOf[field]]
        /\ \A default : Setting(raw, KeyOf[field], default) = Setting(only, KeyOf[field], default)
    BY <1>1, <1>3, OwnVariables
  <2>2. CASE field = "encoderName"
    BY <1>2, <1>3, <2>2 DEF KeyOf, ApplyRaw
  <2>3. CASE field \in {"level", "json", "async", "path", "maxSize", "colour", "forceTTY"}
    BY <2>1, <2>3 DEF KeyOf, ApplyRaw
  <2>4. CASE field = "strategy"
    BY <2>1, <2>4 DEF KeyOf, ApplyRaw
  <2>5. CASE field = "mode"
    BY <2>1, <2>5 DEF KeyOf, ApplyRaw
  <2>. QED
    BY <2>2, <2>3, <2>4, <2>5 DEF KeyOf
<1>4. <<"output">> \in DOMAIN env => with.sinks = alone.sinks
  BY <1>1, OwnVariables DEF ApplyRaw
<1>5. ASSUME NEW part \in DOMAIN SamplingKeyOf, SamplingKeyOf[part] \in DOMAIN env
      PROVE  with.sampling[part] = alone.sampling[part]
  <2>1. \A default : Setting(raw, SamplingKeyOf[part], default) = Setting(only, SamplingKeyOf[part], default)
    BY <1>1, <1>5, OwnVariables
  <2>2. with.sampling = LoadedSampling(raw) /\ alone.sampling = LoadedSampling(only)
    BY DEF ApplyRaw
  <2>3. CASE part = "enabled"
    BY <2>1, <2>2, <2>3 DEF SamplingKeyOf, LoadedSampling
  <2>4. CASE part = "initial"
    BY <2>1, <2>2, <2>4 DEF SamplingKeyOf, LoadedSampling
  <2>5. CASE part = "thereafter"
    BY <2>1, <2>2, <2>5 DEF SamplingKeyOf, LoadedSampling
  <2>6. CASE part = "perLevel"
    <3>1. \A r : LoadedSampling(r).perLevel = Setting(r, <<"sampling", "per_level_threshold">>, FALSE)
      BY DEF LoadedSampling
    <3>2. SamplingKeyOf[part] = <<"sampling", "per_level_threshold">>
      BY <2>6 DEF SamplingKeyOf
    <3>3. Setting(raw, <<"sampling", "per_level_threshold">>, FALSE)
              = Setting(only, <<"sampling", "per_level_threshold">>, FALSE)
      BY <2>1, <3>2
    <3>. QED
      BY <2>2, <2>6, <3>1, <3>3
  <2>. QED
    BY <2>3, <2>4, <2>5, <2>6 DEF SamplingKeyOf
<1>. QED
  BY <1>3, <1>4, <1>5 DEF raw, only

\* The rule of a level that a document names, part by part.
LEMMA LevelNameOf ==
    ASSUME NEW name \in ToSet(LevelNames)
    PROVE  LevelNames[LevelFromString[name] + 1] = name
<1>1. \E i \in DOMAIN LevelNames : LevelNames[i] = name
  BY DEF ToSet
<1>2. (CHOOSE i \in DOMAIN LevelNames : LevelNames[i] = name) \in DOMAIN LevelNames
        /\ LevelNames[CHOOSE i \in DOMAIN LevelNames : LevelNames[i] = name] = name
  BY <1>1
<1>3. DOMAIN LevelNames = 1 .. 6
  BY DEF LevelNames
<1>4. \A i \in 1 .. 6 : i - 1 + 1 = i
  OBVIOUS
<1>. QED
  BY <1>2, <1>3, <1>4 DEF LevelFromString

LEMMA RuleOfName ==
    ASSUME NEW raw, NEW name \in ToSet(LevelNames), NEW part \in RuleParts,
           LevelFromString[name] \in DOMAIN LoadedRules(raw)
    PROVE  LET key == RuleKeyOf(name, part)
               value == LoadedRules(raw)[LevelFromString[name]][part]
           IN /\ key \in DOMAIN raw => value = raw[key]
              /\ part # "enabled" /\ key \notin DOMAIN raw => value = LoadedSampling(raw)[part]
<1>. DEFINE l == LevelFromString[name]
            Part(p, default) == Setting(raw, RuleKeyOf(LevelNames[l + 1], p), default)
<1>1. LoadedRules(raw)[l] = [enabled |-> Part("enabled", TRUE),
                             initial |-> Part("initial", LoadedSampling(raw).initial),
                             thereafter |-> Part("thereafter", LoadedSampling(raw).thereafter)]
  BY DEF LoadedRules
<1>2. LevelNames[l + 1] = name
  BY LevelNameOf
<1>3. /\ LoadedRules(raw)[l].enabled = Setting(raw, RuleKeyOf(name, "enabled"), TRUE)
      /\ LoadedRules(raw)[l].initial
            = Setting(raw, RuleKeyOf(name, "initial"), LoadedSampling(raw).initial)
      /\ LoadedRules(raw)[l].thereafter
            = Setting(raw, RuleKeyOf(name, "thereafter"), LoadedSampling(raw).thereafter)
  BY <1>1, <1>2
<1>. HIDE DEF l
<1>4. CASE part = "enabled"
  BY <1>3, <1>4 DEF Setting, l
<1>5. CASE part = "initial"
  BY <1>3, <1>5 DEF Setting, l
<1>6. CASE part = "thereafter"
  BY <1>3, <1>6 DEF Setting, l
<1>. QED
  BY <1>4, <1>5, <1>6 DEF RuleParts

LEMMA EnvRules ==
    ASSUME NEW env, NEW file
    PROVE  RuleOverrides(env, file, LoadedRules(Raw(env, file)), ApplyRaw(Raw(env, << >>)))
<1>. SUFFICES ASSUME NEW name \in ToSet(LevelNames), NEW part \in RuleParts
              PROVE  LET key == RuleKeyOf(name, part)
                         l == LevelFromString[name]
                         rules == LoadedRules(Raw(env, file))
                     IN /\ key \in DOMAIN env => l \in DOMAIN rules /\ rules[l][part] = env[key]
                        /\ /\ part # "enabled" /\ l \in DOMAIN rules
                           /\ key \notin DOMAIN env /\ key \notin DOMAIN file
                           /\ SamplingKeyOf[part] \in DOMAIN env
                           => rules[l][part] = ApplyRaw(Raw(env, << >>)).sampling[part]
  BY DEF RuleOverrides
<1>. DEFINE key == RuleKeyOf(name, part)
            raw == Raw(env, file)
            l == LevelFromString[name]
            rules == LoadedRules(raw)
<1>1. key \in AllKeys /\ Variable(key) = key
  BY OwnVariables
<1>2. ASSUME key \in DOMAIN env
      PROVE  l \in DOMAIN rules /\ rules[l][part] = env[key]
  <2>1. key \in DOMAIN raw /\ raw[key] = env[key]
    BY <1>1, <1>2, RawValues
  <2>2. Len(key) >= 3 /\ key[1] = "sampling" /\ key[2] = "rules" /\ key[3] = name
    BY DEF RuleKeyOf
  <2>3. name \in RuleNames(raw)
    BY <2>1, <2>2 DEF RuleNames, NamesUnder
  <2>4. l \in DOMAIN rules
    BY <2>3 DEF LoadedRules
  <2>. QED
    BY <2>1, <2>4, RuleOfName
<1>3. ASSUME part # "enabled", l \in DOMAIN rules, key \notin DOMAIN env, key \notin DOMAIN file,
             SamplingKeyOf[part] \in DOMAIN env
      PROVE  rules[l][part] = ApplyRaw(Raw(env, << >>)).sampling[part]
  <2>1. key \notin DOMAIN raw
    BY <1>1, <1>3, RawValues
  <2>2. rules[l][part] = LoadedSampling(raw)[part]
    BY <1>3, <2>1, RuleOfName
  <2>3. part \in DOMAIN SamplingKeyOf
    BY DEF RuleParts, SamplingKeyOf
  <2>4. ApplyRaw(raw).sampling[part] = ApplyRaw(Raw(env, << >>)).sampling[part]
    BY <1>3, <2>3, EnvFields
  <2>5. ApplyRaw(raw).sampling = LoadedSampling(raw)
    BY DEF ApplyRaw
  <2>. QED
    BY <2>2, <2>4, <2>5
<1>. QED
  BY <1>2, <1>3

-----------------------------------------------------------------------------
(* Types. *)

LEMMA Bounds ==
    /\ MaxChanges \in Nat /\ MaxRegistrations \in Nat /\ MaxCalls \in Nat /\ MaxFaults \in Nat
    /\ "none" \notin Makers /\ "builder" \notin Makers
BY SetupAssumption

LEMMA DefaultsType ==
    /\ DefaultConfig \in Configs /\ NewConfigBuilder \in Configs
    /\ DefaultConfig.sampling \in SamplingSettings
<1>1. DefaultConfig.sampling \in SamplingSettings
  BY SamplingDefaultsAssumption DEF DefaultConfig, SamplingSettings
<1>2. Unset \in Strings /\ "stdout" \in Strings /\ "drop_newest" \in Strings
  BY StringsAssumption DEF Unset
<1>3. <<"stdout">> \in Seq(Strings) /\ << >> \in Seq(Strings)
  BY <1>2
<1>4. DefaultConfig \in Configs
  BY <1>1, <1>2, <1>3 DEF DefaultConfig, Configs, DefaultMaxFileSize, LogFilePermissions
<1>. QED
  BY <1>1, <1>4 DEF NewConfigBuilder, Configs

LEMMA InitTypes == Init => TypeOK
<1>. SUFFICES ASSUME Init PROVE TypeOK
  OBVIOUS
<1>1. IsRules(<< >>, AllLevels) /\ IsRules(<< >>, AllLevels \cup {DefaultRule})
  BY DEF IsRules
<1>2. SetupTypes
  <2>1. \A name \in DOMAIN registry : FALSE
    BY DEF Init
  <2>2. DOMAIN ruleMaps = Makers \cup {"builder", "none"} /\ \A o \in DOMAIN ruleMaps : ruleMaps[o] = << >>
    BY DEF Init
  <2>3. builder = NewConfigBuilder /\ builderMap = FALSE /\ changes = MaxChanges
            /\ registrations = MaxRegistrations
    BY DEF Init
  <2>5. builder \in Configs /\ builderMap \in BOOLEAN
    BY Zenon, <2>3, DefaultsType
  <2>6. changes \in 0 .. MaxChanges /\ registrations \in 0 .. MaxRegistrations
    BY <2>3, Bounds
  <2>4. \A o \in DOMAIN ruleMaps : IsRules(ruleMaps[o], AllLevels)
    BY Zenon, <1>1, <2>2
  <2>. QED
    BY Zenon, <2>1, <2>2, <2>4, <2>5, <2>6 DEF SetupTypes
<1>3. MakerTypes
  BY <1>1, Bounds, DefaultsType, StringsAssumption DEF Init, MakerTypes, Labels, Causes, Unset
<1>4. SamplingTypes
  <2>1. << >> \in [DOMAIN << >> -> Nat]
    OBVIOUS
  <2>. QED
    BY <1>1, <2>1, Bounds DEF Init, SamplingTypes, Counts
<1>. QED
  BY <1>2, <1>3, <1>4, Bounds DEF Init, TypeOK

LEMMA NormalizedType ==
    \A value, fallback \in Int : NormalizeThreshold(value, fallback) \in Int
BY DEF NormalizeThreshold

LEMMA BaseRule ==
    ASSUME NEW c \in SamplingSettings
    PROVE  LET base == BuildDefaultSamplingRule(c) IN
           base = [enabled |-> TRUE, initial |-> base.initial, thereafter |-> base.thereafter]
               /\ base.initial \in Nat \ {0} /\ base.thereafter \in Nat \ {0}
BY SamplingDefaultsAssumption
DEF SamplingSettings, BuildDefaultSamplingRule, Rule, NormalizeThreshold

LEMMA LevelRule ==
    ASSUME NEW r \in Thresholds, NEW i \in Nat \ {0}, NEW n \in Nat \ {0}
    PROVE  LET rule == BuildLevelRule(r, Rule(i, n)) IN
           /\ rule \in Thresholds /\ rule.initial \in Nat /\ rule.thereafter \in Nat
           /\ rule.enabled => rule.initial > 0 /\ rule.thereafter > 0
BY DEF BuildLevelRule, Rule, Disabled, NormalizeThreshold, Thresholds

\* The rules of a sampler, if there is one.
LEMMA SamplerRules ==
    ASSUME NEW c \in SamplingSettings, NEW rules, IsRules(rules, AllLevels)
    PROVE  LET s == NewLogSampler(c, rules)
               base == BuildDefaultSamplingRule(c)
           IN /\ IsRules(s, AllLevels \cup {DefaultRule})
              /\ \A k \in DOMAIN s : s[k].initial \in Nat /\ s[k].thereafter \in Nat
              /\ \A k \in DOMAIN s : s[k].enabled => s[k].initial > 0 /\ s[k].thereafter > 0
              /\ ~c.enabled => s = << >>
              /\ c.enabled =>
                    /\ s # << >> /\ DefaultRule \in DOMAIN s /\ s[DefaultRule] = base
                    /\ \A l \in AllLevels :
                          /\ l \in DOMAIN s <=> l \in DOMAIN rules \/ c.perLevel
                          /\ l \in DOMAIN rules => s[l] = BuildLevelRule(rules[l], base)
                          /\ l \notin DOMAIN rules /\ c.perLevel => s[l] = base
<1>. DEFINE base == BuildDefaultSamplingRule(c)
            s == NewLogSampler(c, rules)
<1>1. /\ base = Rule(base.initial, base.thereafter)
      /\ base.initial \in Nat \ {0} /\ base.thereafter \in Nat \ {0}
  BY BaseRule DEF Rule
<1>2. base \in Thresholds
  <2>. HIDE DEF base
  <2>1. PICK i \in Nat, n \in Nat : base = Rule(i, n)
    BY <1>1
  <2>. QED
    BY <2>1 DEF Rule, Thresholds
<1>3. \A l \in DOMAIN rules : LET rule == BuildLevelRule(rules[l], base) IN
          /\ rule \in Thresholds /\ rule.initial \in Nat /\ rule.thereafter \in Nat
          /\ rule.enabled => rule.initial > 0 /\ rule.thereafter > 0
  BY <1>1, LevelRule DEF IsRules
<1>4. DefaultRule \notin AllLevels
  BY DEF DefaultRule, AllLevels
<1>. HIDE DEF base
<1>5. CASE ~c.enabled
  <2>1. s = << >>
    BY <1>5 DEF NewLogSampler
  <2>. QED
    BY <1>5, <2>1 DEF IsRules
<1>6. CASE c.enabled
  <2>. DEFINE clones == [l \in (IF c.perLevel THEN AllLevels ELSE {}) \cup {DefaultRule} |-> base]
              own == [l \in DOMAIN rules \cap AllLevels |-> BuildLevelRule(rules[l], base)]
  <2>1. s = Over(own, clones)
    BY <1>6 DEF NewLogSampler, SanitizeSamplingRules, base
  <2>2. DOMAIN s = DOMAIN own \cup DOMAIN clones
    BY <2>1 DEF Over
  <2>3. DOMAIN own = DOMAIN rules
    BY DEF IsRules
  <2>4. \A l \in DOMAIN rules : s[l] = BuildLevelRule(rules[l], base)
    BY <2>1, <2>3 DEF Over
  <2>5. \A l \in DOMAIN s \ DOMAIN rules : s[l] = base
    BY <2>1, <2>2, <2>3 DEF Over
  <2>6. DOMAIN s \subseteq AllLevels \cup {DefaultRule} /\ DefaultRule \in DOMAIN s
    BY <2>2, <2>3 DEF IsRules
  <2>7. DefaultRule \notin DOMAIN rules
    BY <1>4 DEF IsRules
  <2>8. \A l \in AllLevels : l \in DOMAIN s <=> l \in DOMAIN rules \/ c.perLevel
    BY <2>2, <2>3, <1>4
  <2>9. s # << >>
    BY <2>6
  <2>. HIDE DEF s, own, clones
  <2>10. IsRules(s, AllLevels \cup {DefaultRule})
    BY <1>2, <1>3, <2>4, <2>5, <2>6 DEF IsRules
  <2>11. \A k \in DOMAIN s :
            /\ s[k].initial \in Nat /\ s[k].thereafter \in Nat
            /\ s[k].enabled => s[k].initial > 0 /\ s[k].thereafter > 0
    BY <1>1, <1>3, <2>4, <2>5
  <2>. QED
    BY <1>6, <2>4, <2>5, <2>6, <2>7, <2>8, <2>9, <2>10, <2>11 DEF s, base
<1>. QED
  BY <1>5, <1>6

LEMMA KeptTypes ==
    /\ SetupTypes /\ UNCHANGED setupVars => SetupTypes'
    /\ MakerTypes /\ UNCHANGED makerVars => MakerTypes'
    /\ SamplingTypes /\ UNCHANGED samplingVars => SamplingTypes'
<1>1. SetupTypes /\ UNCHANGED setupVars => SetupTypes'
  BY DEF SetupTypes, setupVars
<1>2. MakerTypes /\ UNCHANGED makerVars => MakerTypes'
  BY DEF MakerTypes, makerVars
<1>3. SamplingTypes /\ UNCHANGED samplingVars => SamplingTypes'
  BY DEF SamplingTypes, samplingVars
<1>. QED
  BY <1>1, <1>2, <1>3

LEMMA UseBuilderTypes == TypeOK /\ UseBuilder => TypeOK'
<1>. SUFFICES ASSUME TypeOK, UseBuilder PROVE TypeOK'
  OBVIOUS
<1>1. /\ Change /\ UNCHANGED <<registry, registrations, makerVars, samplingVars, faults>>
  BY DEF UseBuilder, With, WithHook, WithSamplingRule
<1>2. changes' \in 0 .. MaxChanges
  BY <1>1, Bounds DEF TypeOK, SetupTypes, Change
<1>3. CASE \E settings \in Changes : With(settings)
  <2>1. builder' \in Configs /\ UNCHANGED <<builderMap, ruleMaps>>
    BY <1>3, Changed DEF With, TypeOK, SetupTypes
  <2>2. SetupTypes'
    BY <1>1, <1>2, <2>1 DEF TypeOK, SetupTypes
  <2>. QED
    BY <1>1, <2>2, KeptTypes DEF TypeOK
<1>4. CASE WithHook("audit")
  <2>1. Append(builder.hooks, "audit") \in Seq(Strings)
    BY StringsAssumption DEF TypeOK, SetupTypes, Configs
  <2>2. builder' \in Configs /\ UNCHANGED <<builderMap, ruleMaps>>
    BY <1>4, <2>1 DEF WithHook, TypeOK, SetupTypes, Configs
  <2>3. SetupTypes'
    BY <1>1, <1>2, <2>2 DEF TypeOK, SetupTypes
  <2>. QED
    BY <1>1, <2>3, KeptTypes DEF TypeOK
<1>5. CASE \E r \in SamplingRules : WithSamplingRule(r[1], r[2])
  <2>1. PICK level \in AllLevels, rule \in Thresholds : WithSamplingRule(level, rule)
    BY <1>5, SetupAssumption DEF WithSamplingRule
  <2>. DEFINE more == Over([l \in {level} |-> rule], ruleMaps["builder"])
  <2>2. builderMap' = TRUE /\ ruleMaps' = [ruleMaps EXCEPT !["builder"] = more] /\ builder' = builder
    BY <2>1 DEF WithSamplingRule
  <2>3. IsRules(ruleMaps["builder"], AllLevels)
    BY DEF TypeOK, SetupTypes
  <2>4. IsRules(more, AllLevels)
    BY <2>3 DEF IsRules, Over
  <2>. HIDE DEF more
  <2>5. DOMAIN ruleMaps' = DOMAIN ruleMaps
            /\ \A o \in DOMAIN ruleMaps : ruleMaps'[o] = ruleMaps[o] \/ ruleMaps'[o] = more
    BY <2>2
  <2>6. \A o \in DOMAIN ruleMaps' : IsRules(ruleMaps'[o], AllLevels)
    BY <2>4, <2>5 DEF TypeOK, SetupTypes
  <2>7. SetupTypes'
    BY <1>1, <1>2, <2>2, <2>5, <2>6 DEF TypeOK, SetupTypes
  <2>. QED
    BY <1>1, <2>7, KeptTypes DEF TypeOK
<1>. QED
  BY <1>3, <1>4, <1>5 DEF UseBuilder

LEMMA RegisterTypes ==
    ASSUME TypeOK, NEW name, NEW e \in {"console", "json", "custom"}, Register(name, e)
    PROVE  \A n \in DOMAIN registry' : registry'[n] \in {"console", "json", "custom"}
BY DEF Register, Over, TypeOK, SetupTypes

LEMMA RegisterEncoderTypes ==
    ASSUME TypeOK, NEW name, RegisterEncoder(name)
    PROVE  TypeOK'
<1>1. SetupTypes'
  <2>1. \A n \in DOMAIN registry' : registry'[n] \in {"console", "json", "custom"}
    BY RegisterTypes DEF RegisterEncoder
  <2>2. registrations' \in 0 .. MaxRegistrations
    BY Bounds DEF RegisterEncoder, TypeOK, SetupTypes
  <2>. QED
    BY <2>1, <2>2 DEF RegisterEncoder, TypeOK, SetupTypes
<1>. QED
  BY <1>1, KeptTypes DEF RegisterEncoder, TypeOK

LEMMA FailTypes ==
    ASSUME MakerTypes, NEW g \in Makers, NEW why \in Causes, Fail(g, why)
    PROVE  pc' \in [Makers -> Labels] /\ cause' \in [Makers -> Causes]
BY DEF Fail, MakerTypes, Labels

LEMMA ConfigureTypes ==
    ASSUME TypeOK, NEW g \in Makers, NEW config \in Configs,
           NEW owner \in Makers \cup {"builder", "none"}, NEW source \in Documents \cup {Nothing},
           Configure(g, config, owner, source), cause' = cause
    PROVE  MakerTypes' /\ SamplingTypes' /\ faults' \in 0 .. MaxFaults
<1>1. MakerTypes'
  <2>1. pc' \in [Makers -> Labels]
    BY DEF Configure, TypeOK, MakerTypes, Labels
  <2>. QED
    BY <2>1 DEF Configure, TypeOK, MakerTypes
<1>. QED
  BY <1>1, KeptTypes DEF Configure, TypeOK

LEMMA ConfigurationTypes ==
    ASSUME TypeOK, NEW g \in Makers, Build(g) \/ TakePreset(g) \/ Load(g)
    PROVE  TypeOK'
<1>1. CASE Build(g)
  BY <1>1, ConfigureTypes, KeptTypes DEF Build, TypeOK, SetupTypes
<1>2. CASE TakePreset(g)
  BY <1>2, ConfigureTypes, KeptTypes, SetupAssumption DEF TakePreset, TypeOK
<1>3. ASSUME NEW source \in Documents, Refusal(Raw(source.env, source.file)) = NoError,
             Configure(g, ApplyRaw(Raw(source.env, source.file)), g, source),
             ruleMaps' = [ruleMaps EXCEPT ![g] = LoadedRules(Raw(source.env, source.file))],
             UNCHANGED <<builder, builderMap, changes, registry, registrations, cause>>
      PROVE  TypeOK'
  <2>. DEFINE raw == Raw(source.env, source.file)
  <2>1. ApplyRaw(raw) \in Configs /\ IsRules(LoadedRules(raw), AllLevels)
    BY <1>3, RawDecodes, ApplyRawType, LoadedRulesType
  <2>. HIDE DEF raw
  <2>2. \A o \in DOMAIN ruleMaps : ruleMaps'[o] = ruleMaps[o] \/ ruleMaps'[o] = LoadedRules(raw)
    BY <1>3 DEF raw
  <2>3. DOMAIN ruleMaps' = DOMAIN ruleMaps
    BY <1>3
  <2>4. \A o \in DOMAIN ruleMaps' : IsRules(ruleMaps'[o], AllLevels)
    BY <2>1, <2>2, <2>3 DEF TypeOK, SetupTypes
  <2>5. SetupTypes'
    BY <1>3, <2>3, <2>4 DEF TypeOK, SetupTypes
  <2>. QED
    BY <1>3, <2>1, <2>5, ConfigureTypes DEF TypeOK, raw
<1>4. ASSUME NEW source \in Documents, NEW why \in Causes, Reject(g, source, why),
             faults' = faults \/ Fault
      PROVE  TypeOK'
  <2>1. /\ pc' \in [Makers -> Labels] /\ cause' \in [Makers -> Causes]
    BY <1>4, FailTypes DEF Reject, TypeOK
  <2>2. MakerTypes'
    BY <1>4, <2>1 DEF Reject, TypeOK, MakerTypes
  <2>3. faults' \in 0 .. MaxFaults
    BY <1>4, Bounds DEF TypeOK, Fault
  <2>. QED
    BY <1>4, <2>2, <2>3, KeptTypes DEF Reject, TypeOK
<1>5. /\ \A raw : Refusal(raw) # NoError => Refusal(raw) \in Causes
      /\ {"read", "open"} \subseteq Causes
  BY Refused DEF Refusals, Causes
<1>. QED
  BY <1>1, <1>2, <1>3, <1>4, <1>5 DEF Load

\* What NewAdapter makes of a configuration, in what later steps ask about.
LEMMA PreparedType ==
    ASSUME NEW c \in Configs
    PROVE  LET p == PreparedOutput(c)
               v == Validated(p)
           IN /\ p \in Configs /\ v \in Configs
              /\ p.level = c.level /\ v.level = c.level
              /\ c.path = Unset => p.sinks = c.sinks
              /\ c.sinks # << >> => p.sinks # << >>
              /\ v.sinks = p.sinks /\ v.path = c.path /\ v.json = c.json
              /\ v.encoder = c.encoder /\ v.encoderName = c.encoderName
              /\ v.registry = c.registry /\ v.sampling = c.sampling /\ v.hooks = c.hooks
              /\ v.strategy \in {"drop_newest", "drop_oldest", "block", "handoff"}
<1>1. /\ Append(c.sinks, c.path) \in Seq(Strings) /\ Append(c.sinks, c.path) # << >>
      /\ (IF c.maxSize > 0 THEN c.maxSize ELSE 0) \in Int
  <2>1. c.sinks \in Seq(Strings) /\ c.path \in Strings /\ c.maxSize \in Int
    BY DEF Configs
  <2>2. Append(c.sinks, c.path) \in Seq(Strings) /\ Len(Append(c.sinks, c.path)) = Len(c.sinks) + 1
    BY <2>1
  <2>3. Len(c.sinks) + 1 # 0 /\ Len(<< >>) = 0
    BY <2>1
  <2>. QED
    BY <2>1, <2>2, <2>3
<1>. DEFINE p == PreparedOutput(c)
<1>2. /\ p \in Configs /\ p.level = c.level /\ p.path = c.path /\ p.json = c.json
      /\ p.encoder = c.encoder /\ p.encoderName = c.encoderName
      /\ p.registry = c.registry /\ p.sampling = c.sampling /\ p.hooks = c.hooks
      /\ p.sinks = IF c.path = Unset THEN c.sinks ELSE Append(c.sinks, c.path)
  BY <1>1 DEF PreparedOutput, Configs
<1>. HIDE DEF p
<1>. DEFINE v == Validated(p)
<1>3. /\ "drop_newest" \in Strings /\ p.strategy \in Strings
      /\ (p.colour /\ (p.forceTTY \/ HasTTY(p.sinks))) \in BOOLEAN
  BY <1>2, StringsAssumption DEF Configs
<1>4. /\ v \in Configs /\ v.level = p.level /\ v.path = p.path /\ v.json = p.json
      /\ v.encoder = p.encoder /\ v.encoderName = p.encoderName /\ v.sinks = p.sinks
      /\ v.registry = p.registry /\ v.sampling = p.sampling /\ v.hooks = p.hooks
      /\ v.strategy = IF p.strategy \in {"block", "drop_oldest", "handoff"} THEN p.strategy
                      ELSE "drop_newest"
  BY <1>2, <1>3 DEF Validated, Configs
<1>. HIDE DEF v
<1>. QED
  BY <1>1, <1>2, <1>4 DEF p, v

\* What NewAdapter leaves of what the environment may name.
LEMMA AdjustedOnly ==
    ASSUME NEW c \in Configs, c.strategy \in {"drop_newest", "drop_oldest", "block", "handoff"}
    PROVE  LET v == Validated(PreparedOutput(c)) IN
           /\ \A field \in DOMAIN KeyOf : ~Adjusted(field, c) => v[field] = c[field]
           /\ Len(c.sinks) = 1 => v.sinks[1] = c.sinks[1]
<1>. DEFINE p == PreparedOutput(c)
            v == Validated(p)
<1>1. /\ c.sinks \in Seq(Strings) /\ c.path \in Strings /\ c.maxSize \in Int
      /\ c.colour \in BOOLEAN
  BY DEF Configs
<1>2. /\ p.level = c.level /\ p.json = c.json /\ p.async = c.async /\ p.strategy = c.strategy
      /\ p.encoderName = c.encoderName /\ p.path = c.path /\ p.mode = c.mode
      /\ p.colour = c.colour /\ p.forceTTY = c.forceTTY
      /\ c.maxSize > 0 => p.maxSize = c.maxSize
      /\ p.sinks = IF c.path = Unset THEN c.sinks ELSE Append(c.sinks, c.path)
  BY DEF PreparedOutput, Configs
<1>3. /\ v.level = p.level /\ v.json = p.json /\ v.async = p.async
      /\ v.encoderName = p.encoderName /\ v.path = p.path /\ v.mode = p.mode
      /\ v.forceTTY = p.forceTTY /\ v.maxSize = p.maxSize /\ v.sinks = p.sinks
      /\ v.strategy = c.strategy /\ (c.colour = FALSE => v.colour = FALSE)
  <2>1. /\ DOMAIN p = DOMAIN c /\ {"colour", "strategy"} \subseteq DOMAIN c
    BY DEF PreparedOutput, Configs
  <2>. HIDE DEF p
  <2>. QED
    BY <1>2, <2>1 DEF Validated, Configs
<1>. HIDE DEF p, v
<1>4. ASSUME NEW field \in DOMAIN KeyOf, ~Adjusted(field, c) PROVE v[field] = c[field]
  <2>1. CASE field = "maxSize"
    BY <1>1, <1>2, <1>3, <1>4, <2>1 DEF Adjusted
  <2>2. CASE field = "colour"
    BY <1>1, <1>3, <1>4, <2>2 DEF Adjusted
  <2>3. CASE field \in {"level", "json", "async", "strategy", "encoderName", "path", "mode", "forceTTY"}
    BY <1>2, <1>3, <2>3
  <2>. QED
    BY <2>1, <2>2, <2>3 DEF KeyOf
<1>5. Len(c.sinks) = 1 => v.sinks[1] = c.sinks[1]
  BY <1>1, <1>2, <1>3
<1>. QED
  BY <1>4, <1>5 DEF p, v

LEMMA NewAdapterTypes ==
    ASSUME TypeOK, NEW g \in Makers, NewAdapter(g)
    PROVE  TypeOK'
<1>1. /\ pc' \in [Makers -> Labels] /\ cause' \in [Makers -> Causes]
      /\ cfg' \in [Makers -> Configs] /\ faults' \in 0 .. MaxFaults
  <2>. DEFINE c == PreparedOutput(cfg[g])
  <2>1. cfg[g] \in Configs
    BY DEF TypeOK, MakerTypes
  <2>2. /\ Validated(c) \in Configs
    BY <2>1, PreparedType
  <2>. HIDE DEF c
  <2>3. CASE cfg' = cfg /\ faults' \in 0 .. MaxFaults /\ \E why \in Causes : Fail(g, why)
    BY <2>3, FailTypes DEF TypeOK, MakerTypes
  <2>4. CASE cfg' = [cfg EXCEPT ![g] = Validated(c)] /\ pc' = [pc EXCEPT ![g] = "encoder"]
                /\ cause' = cause /\ faults' = faults
    BY <2>2, <2>4 DEF TypeOK, MakerTypes, Labels
  <2>5. {"open", "level", "output"} \subseteq Causes
    BY DEF Causes
  <2>6. Fault => faults' \in 0 .. MaxFaults
    BY Bounds DEF TypeOK, Fault
  <2>. QED
    BY <2>3, <2>4, <2>5, <2>6 DEF NewAdapter, c, TypeOK
<1>2. MakerTypes'
  <2>1. /\ cfg[g].sampling \in SamplingSettings /\ IsRules(ruleMaps[rulesOf[g]], AllLevels)
    BY DEF TypeOK, MakerTypes, SetupTypes, Configs
  <2>2. /\ asked' = [asked EXCEPT ![g] = [sampling |-> cfg[g].sampling, rules |-> ruleMaps[rulesOf[g]]]]
        /\ UNCHANGED <<rulesOf, document, encoder>>
    BY DEF NewAdapter
  <2>3. DOMAIN asked' = Makers /\ \A h \in Makers :
            asked'[h].sampling \in SamplingSettings /\ IsRules(asked'[h].rules, AllLevels)
    BY <2>1, <2>2 DEF TypeOK, MakerTypes
  <2>. QED
    BY <1>1, <2>2, <2>3 DEF TypeOK, MakerTypes
<1>. QED
  BY <1>1, <1>2, KeptTypes DEF NewAdapter, TypeOK

LEMMA ResolveType ==
    ASSUME NEW c \in Configs, NEW encoders,
           \A name \in DOMAIN encoders : encoders[name] \in {"console", "json", "custom"}
    PROVE  /\ Resolve(c, encoders) \in Strings
           /\ Resolve(c, encoders) # Unset =>
                 Wanted(c) \in DOMAIN encoders /\ Resolve(c, encoders) = encoders[Wanted(c)]
           /\ Resolve(c, encoders) = Unset => Wanted(c) \notin DOMAIN encoders
BY StringsAssumption DEF Resolve, Wanted, Unset

LEMMA DefaultsAreThere ==
    \A name \in DOMAIN Defaults : Defaults[name] \in {"console", "json", "custom"}
BY DEF Defaults

LEMMA ResolvedTypes ==
    ASSUME MakerTypes, NEW g \in Makers, NEW e \in Strings, Resolved(g, e),
           UNCHANGED <<cfg, rulesOf, document, asked>>
    PROVE  MakerTypes'
<1>1. CASE e = Unset
  <2>1. pc' \in [Makers -> Labels] /\ cause' \in [Makers -> Causes] /\ encoder' = encoder
    BY <1>1, FailTypes DEF Resolved, Causes
  <2>. QED
    BY <2>1 DEF MakerTypes
<1>2. CASE e # Unset
  <2>1. pc' = [pc EXCEPT ![g] = "finish"] /\ encoder' = [encoder EXCEPT ![g] = e] /\ cause' = cause
    BY <1>2 DEF Resolved
  <2>2. pc' \in [Makers -> Labels] /\ encoder' \in [Makers -> Strings]
    BY <2>1 DEF MakerTypes, Labels
  <2>. QED
    BY <2>1, <2>2 DEF MakerTypes
<1>. QED
  BY <1>1, <1>2

LEMMA EncoderTypes ==
    ASSUME TypeOK, NEW g \in Makers, ResolveAlone(g) \/ EnsureEncoderRegistry(g) \/ ResolveShared(g)
    PROVE  TypeOK'
<1>0. cfg[g] \in Configs /\ cfg[g].encoder \in Strings
  BY DEF TypeOK, MakerTypes, Configs
<1>1. CASE ResolveAlone(g)
  <2>1. (IF cfg[g].encoder # Unset THEN cfg[g].encoder ELSE Resolve(cfg[g], Defaults)) \in Strings
    BY <1>0, ResolveType, DefaultsAreThere
  <2>2. MakerTypes'
    BY <1>1, <2>1, ResolvedTypes DEF ResolveAlone, TypeOK
  <2>. QED
    BY <1>1, <2>2, KeptTypes DEF ResolveAlone, TypeOK
<1>2. CASE ResolveShared(g)
  <2>1. Resolve(cfg[g], registry) \in Strings
    BY <1>0, ResolveType DEF TypeOK, SetupTypes
  <2>2. MakerTypes'
    BY <1>2, <2>1, ResolvedTypes DEF ResolveShared, TypeOK
  <2>. QED
    BY <1>2, <2>2, KeptTypes DEF ResolveShared, TypeOK
<1>3. ASSUME NEW label, NEW name, NEW missing \in Labels, NEW found \in Labels,
             LookUp(g, label, name, missing, found)
      PROVE  TypeOK'
  <2>1. pc' \in [Makers -> Labels]
    BY <1>3 DEF LookUp, TypeOK, MakerTypes
  <2>2. MakerTypes'
    BY <1>3, <2>1 DEF LookUp, TypeOK, MakerTypes
  <2>. QED
    BY <1>3, <2>2, KeptTypes DEF LookUp, TypeOK
<1>4. ASSUME NEW label, NEW name \in {"console", "json"}, NEW next \in Labels,
             RegisterDefault(g, label, name, next)
      PROVE  TypeOK'
  <2>1. SetupTypes'
    BY <1>4, RegisterTypes DEF RegisterDefault, TypeOK, SetupTypes
  <2>2. pc' \in [Makers -> Labels] /\ cause' \in [Makers -> Causes]
    <3>1. CASE name \in DOMAIN registry
      BY <1>4, <3>1, FailTypes DEF RegisterDefault, TypeOK, Causes
    <3>2. CASE name \notin DOMAIN registry
      BY <1>4, <3>2 DEF RegisterDefault, TypeOK, MakerTypes
    <3>. QED
      BY <3>1, <3>2
  <2>3. MakerTypes'
    BY <1>4, <2>2 DEF RegisterDefault, TypeOK, MakerTypes
  <2>. QED
    BY <1>4, <2>1, <2>3, KeptTypes DEF RegisterDefault, TypeOK
<1>5. {"add console", "look json", "add json", "resolve"} \subseteq Labels
  BY DEF Labels
<1>6. CASE EnsureEncoderRegistry(g)
  BY <1>3, <1>4, <1>5, <1>6 DEF EnsureEncoderRegistry
<1>. QED
  BY <1>1, <1>2, <1>6

LEMMA FinishTypes ==
    ASSUME TypeOK, NEW g \in Makers, Finish(g)
    PROVE  TypeOK'
<1>. DEFINE rules == NewLogSampler(cfg[g].sampling, ruleMaps[rulesOf[g]])
<1>1. IsRules(rules, AllLevels \cup {DefaultRule})
  <2>1. cfg[g].sampling \in SamplingSettings /\ IsRules(ruleMaps[rulesOf[g]], AllLevels)
    BY DEF TypeOK, MakerTypes, SetupTypes, Configs
  <2>. QED
    BY <2>1, SamplerRules
<1>2. /\ \/ /\ pc' = [pc EXCEPT ![g] = "ready"] /\ cause' = cause
            /\ sampler' = [sampler EXCEPT ![g] = rules]
            /\ counters' = [counters EXCEPT ![g] = [k \in DOMAIN rules |-> 0]]
         \/ Fail(g, "hook") /\ UNCHANGED <<sampler, counters>>
      /\ UNCHANGED <<cfg, rulesOf, document, asked, encoder, setupVars, call, seen, passed, calls, faults>>
  BY DEF Finish
<1>. HIDE DEF rules
<1>3. pc' \in [Makers -> Labels] /\ cause' \in [Makers -> Causes]
  BY <1>2, FailTypes DEF TypeOK, MakerTypes, Labels, Causes
<1>4. MakerTypes'
  BY <1>2, <1>3 DEF TypeOK, MakerTypes
<1>5. /\ DOMAIN sampler' = Makers /\ DOMAIN counters' = Makers
      /\ \A h \in Makers : IsRules(sampler'[h], AllLevels \cup {DefaultRule})
                              /\ counters'[h] \in [DOMAIN sampler'[h] -> Nat]
  <2>1. CASE UNCHANGED <<sampler, counters>>
    BY <2>1 DEF TypeOK, SamplingTypes
  <2>2. CASE /\ sampler' = [sampler EXCEPT ![g] = rules]
             /\ counters' = [counters EXCEPT ![g] = [k \in DOMAIN rules |-> 0]]
    BY <1>1, <2>2 DEF TypeOK, SamplingTypes
  <2>. QED
    BY <1>2, <2>1, <2>2
<1>6. SamplingTypes'
  BY <1>2, <1>5 DEF TypeOK, SamplingTypes
<1>. QED
  BY <1>2, <1>4, <1>6, KeptTypes DEF TypeOK

\* The rule of a level in a sampler.
LEMMA RuleOfLevel ==
    ASSUME NEW s, DefaultRule \in DOMAIN s, NEW level \in AllLevels
    PROVE  RuleKey(s, level) \in DOMAIN s /\ RuleKey(s, level) \in {level, DefaultRule}
BY DEF RuleKey

LEMMA CountsType ==
    ASSUME NEW counts \in [Makers -> Counts], NEW g \in Makers, NEW level \in CallLevels
    PROVE  [counts EXCEPT ![g][level] = @ + 1] \in [Makers -> Counts]
BY DEF Counts

LEMMA CountTypes ==
    ASSUME TypeOK, NEW t \in Callers, NEW g \in Makers, NEW level \in CallLevels,
           Count(t, g, level), DefaultRule \in DOMAIN sampler[g]
    PROVE  TypeOK'
<1>. DEFINE k == RuleKey(sampler[g], level)
<1>1. calls' \in 0 .. MaxCalls /\ sampler' = sampler /\ UNCHANGED <<setupVars, makerVars, faults>>
  BY Bounds DEF Count, TypeOK, SamplingTypes
<1>2. k \in DOMAIN sampler[g]
  BY RuleOfLevel, SetupAssumption
<1>3. CASE /\ seen' = [seen EXCEPT ![g][level] = @ + 1]
           /\ passed' = [passed EXCEPT ![g][level] = @ + 1]
           /\ UNCHANGED <<counters, call>>
  <2>1. seen' \in [Makers -> Counts] /\ passed' \in [Makers -> Counts]
    BY <1>3, CountsType DEF TypeOK, SamplingTypes
  <2>2. SamplingTypes'
    BY <1>1, <1>3, <2>1 DEF TypeOK, SamplingTypes
  <2>. QED
    BY <1>1, <2>2, KeptTypes DEF TypeOK
<1>4. CASE /\ counters' = [counters EXCEPT ![g][k] = @ + 1]
           /\ call' = [call EXCEPT ![t] = [logger |-> g, level |-> level, count |-> counters[g][k] + 1]]
           /\ UNCHANGED <<seen, passed>>
  <2>. HIDE DEF k
  <2>1. counters[g] \in [DOMAIN sampler[g] -> Nat] /\ DOMAIN counters = Makers
    BY DEF TypeOK, SamplingTypes
  <2>2. [counters[g] EXCEPT ![k] = @ + 1] \in [DOMAIN sampler[g] -> Nat]
    BY <1>2, <2>1
  <2>3. DOMAIN counters' = Makers /\ \A h \in Makers : counters'[h] \in [DOMAIN sampler[h] -> Nat]
    BY <1>4, <2>1, <2>2 DEF TypeOK, SamplingTypes
  <2>4. counters[g][k] + 1 \in Nat
    BY <1>2, <2>1
  <2>5. call' \in [Callers -> {Idle} \cup [logger : Makers, level : CallLevels, count : Nat]]
    BY <1>4, <2>4 DEF TypeOK, SamplingTypes
  <2>6. SamplingTypes'
    BY <1>1, <1>4, <2>3, <2>5 DEF TypeOK, SamplingTypes
  <2>. QED
    BY <1>1, <2>6, KeptTypes DEF TypeOK
<1>. QED
  BY <1>3, <1>4 DEF Count

LEMMA DecideTypes ==
    ASSUME TypeOK, NEW t \in Callers, Decide(t)
    PROVE  TypeOK'
<1>1. PICK g \in Makers, l \in CallLevels : g = call[t].logger /\ l = call[t].level
  BY DEF Decide, TypeOK, SamplingTypes
<1>2. /\ seen' = [seen EXCEPT ![g][l] = @ + 1]
      /\ passed' = [passed EXCEPT ![g][l] = @ + 1] \/ passed' = passed
      /\ call' = [call EXCEPT ![t] = Idle]
      /\ UNCHANGED <<sampler, counters, calls, setupVars, makerVars, faults>>
  <2>1. /\ seen' = [seen EXCEPT ![call[t].logger][call[t].level] = @ + 1]
        /\ passed' = [passed EXCEPT ![call[t].logger][call[t].level] = @ + 1] \/ passed' = passed
        /\ call' = [call EXCEPT ![t] = Idle]
        /\ UNCHANGED <<sampler, counters, calls, setupVars, makerVars, faults>>
    BY DEF Decide, Verdict
  <2>. QED
    BY <1>1, <2>1
<1>3. seen' \in [Makers -> Counts] /\ passed' \in [Makers -> Counts]
  <2>1. seen \in [Makers -> Counts] /\ passed \in [Makers -> Counts]
    BY DEF TypeOK, SamplingTypes
  <2>2. [seen EXCEPT ![g][l] = @ + 1] \in [Makers -> Counts]
    BY <2>1, CountsType
  <2>3. [passed EXCEPT ![g][l] = @ + 1] \in [Makers -> Counts]
    BY <2>1, CountsType
  <2>. QED
    BY <1>2, <2>1, <2>2, <2>3
<1>4. SamplingTypes'
  BY <1>2, <1>3 DEF TypeOK, SamplingTypes
<1>. QED
  BY <1>2, <1>4, KeptTypes DEF TypeOK

-----------------------------------------------------------------------------
(* Makers. *)

LEMMA RivalsStay ==
    ASSUME TypeOK, NEW h, Rivals(h),
           registrations' = registrations \/ registrations' = registrations - 1,
           \A x \in Makers : pc[x] # "idle" => pc'[x] # "idle" /\ cfg'[x].registry = cfg[x].registry
    PROVE  Rivals(h)'
<1>1. registrations \in Nat /\ MaxRegistrations \in Nat
  BY Bounds DEF TypeOK, SetupTypes
<1>2. CASE registrations < MaxRegistrations
  BY <1>1, <1>2 DEF Rivals
<1>3. CASE \E x \in Makers \ {h} : pc[x] # "idle" /\ cfg[x].registry = "shared"
  BY <1>3 DEF Rivals
<1>. QED
  BY <1>2, <1>3 DEF Rivals

\* Steps of others.
LEMMA MakerKept ==
    ASSUME TypeOK, NEW h \in Makers, MakerInv(h),
           pc'[h] = pc[h], cfg'[h] = cfg[h], document'[h] = document[h],
           cause'[h] = cause[h], encoder'[h] = encoder[h], ruleMaps'[h] = ruleMaps[h],
           DOMAIN registry \subseteq DOMAIN registry',
           \A n \in DOMAIN registry : registry'[n] = registry[n],
           Rivals(h) => Rivals(h)',
           DOMAIN registry' # DOMAIN registry => Rivals(h)',
           faults' = faults \/ faults' = faults - 1
    PROVE  MakerInv(h)'
<1>1. LoadedInv(h)'
  BY DEF MakerInv, LoadedInv
<1>2. AcceptedInv(h)'
  BY DEF MakerInv, AcceptedInv
<1>3. LookInv(h)'
  BY DEF MakerInv, LookInv
<1>4. EncoderInv(h)'
  <2>1. cfg[h].registry \in {"own", "shared"}
    BY DEF TypeOK, MakerTypes, Configs
  <2>. QED
    BY <2>1 DEF MakerInv, EncoderInv, EncoderAsWanted
<1>5. RefusedInv(h)'
  <2>1. faults < MaxFaults => faults' < MaxFaults
    BY Bounds DEF TypeOK
  <2>. QED
    BY <2>1 DEF MakerInv, RefusedInv, RefusedForCause
<1>. QED
  BY <1>1, <1>2, <1>3, <1>4, <1>5 DEF MakerInv

LEMMA MakersKept ==
    ASSUME TypeOK, MakersInv, UNCHANGED <<makerVars, registry, registrations, faults>>,
           \A h \in Makers : ruleMaps'[h] = ruleMaps[h]
    PROVE  MakersInv'
<1>. SUFFICES ASSUME NEW h \in Makers PROVE MakerInv(h)'
  BY DEF MakersInv
<1>1. Rivals(h) => Rivals(h)'
  BY RivalsStay DEF makerVars
<1>. QED
  BY <1>1, MakerKept DEF MakersInv, makerVars

LEMMA UseBuilderMakers ==
    ASSUME TypeOK, MakersInv, UseBuilder
    PROVE  MakersInv'
<1>1. UNCHANGED <<makerVars, registry, registrations, faults>>
  BY DEF UseBuilder, With, WithHook, WithSamplingRule
<1>2. ruleMaps' = ruleMaps \/ \E rules : ruleMaps' = [ruleMaps EXCEPT !["builder"] = rules]
  BY DEF UseBuilder, With, WithHook, WithSamplingRule
<1>3. \A h \in Makers : ruleMaps'[h] = ruleMaps[h]
  BY <1>2, Bounds DEF TypeOK, SetupTypes
<1>. QED
  BY <1>1, <1>3, MakersKept

LEMMA RegisterFacts ==
    ASSUME NEW name, NEW e, name \notin DOMAIN registry, Register(name, e)
    PROVE  /\ DOMAIN registry' = DOMAIN registry \cup {name}
           /\ \A n \in DOMAIN registry : registry'[n] = registry[n]
BY DEF Register, Over

LEMMA RegisterEncoderMakers ==
    ASSUME TypeOK, MakersInv, NEW name, RegisterEncoder(name)
    PROVE  MakersInv'
<1>. SUFFICES ASSUME NEW h \in Makers PROVE MakerInv(h)'
  BY DEF MakersInv
<1>1. /\ UNCHANGED <<makerVars, ruleMaps, faults>>
      /\ registrations' = registrations - 1 /\ registrations > 0
  BY DEF RegisterEncoder
<1>2. DOMAIN registry \subseteq DOMAIN registry'
        /\ \A n \in DOMAIN registry : registry'[n] = registry[n]
  BY RegisterFacts DEF RegisterEncoder
<1>3. Rivals(h)'
  BY <1>1, Bounds DEF Rivals, TypeOK, SetupTypes
<1>. QED
  BY <1>1, <1>2, <1>3, MakerKept DEF MakersInv, makerVars

\* A step of one maker, seen by the others.
LEMMA OthersKept ==
    ASSUME TypeOK, MakersInv, NEW g \in Makers, registrations' = registrations,
           faults' = faults \/ faults' = faults - 1,
           \A h \in Makers \ {g} :
              /\ pc'[h] = pc[h] /\ cfg'[h] = cfg[h] /\ document'[h] = document[h]
              /\ cause'[h] = cause[h] /\ encoder'[h] = encoder[h] /\ ruleMaps'[h] = ruleMaps[h],
           pc'[g] # "idle", pc[g] # "idle" => cfg'[g].registry = cfg[g].registry,
           DOMAIN registry \subseteq DOMAIN registry',
           \A n \in DOMAIN registry : registry'[n] = registry[n],
           DOMAIN registry' # DOMAIN registry => cfg'[g].registry = "shared",
           MakerInv(g)'
    PROVE  MakersInv'
<1>. SUFFICES ASSUME NEW h \in Makers \ {g} PROVE MakerInv(h)'
  BY DEF MakersInv
<1>1. Rivals(h) => Rivals(h)'
  BY RivalsStay
<1>2. DOMAIN registry' # DOMAIN registry => Rivals(h)'
  BY DEF Rivals
<1>. QED
  BY <1>1, <1>2, MakerKept DEF MakersInv

LEMMA ConfigureMakers ==
    ASSUME TypeOK, MakersInv, NEW g \in Makers, NEW config, NEW owner, NEW source,
           Configure(g, config, owner, source), cause' = cause,
           UNCHANGED <<registry, registrations>>,
           \A h \in Makers \ {g} : ruleMaps'[h] = ruleMaps[h],
           LET raw == Raw(source.env, source.file) IN
           source # Nothing =>
               Refusal(raw) = NoError /\ config = ApplyRaw(raw) /\ ruleMaps'[g] = LoadedRules(raw)
    PROVE  MakersInv'
<1>1. /\ pc[g] = "idle" /\ pc'[g] = "configured" /\ cfg'[g] = config /\ document'[g] = source
      /\ faults' = faults
      /\ \A h \in Makers \ {g} :
             /\ pc'[h] = pc[h] /\ cfg'[h] = cfg[h] /\ document'[h] = document[h]
             /\ cause'[h] = cause[h] /\ encoder'[h] = encoder[h]
  BY DEF Configure, TypeOK, MakerTypes
<1>2. MakerInv(g)'
  <2>1. LoadedInv(g)'
    BY <1>1 DEF LoadedInv
  <2>2. AcceptedInv(g)' /\ LookInv(g)' /\ EncoderInv(g)' /\ RefusedInv(g)'
    BY <1>1 DEF AcceptedInv, LookInv, EncoderInv, RefusedInv
  <2>. QED
    BY <2>1, <2>2 DEF MakerInv
<1>. QED
  BY <1>1, <1>2, OthersKept

LEMMA ConfigurationMakers ==
    ASSUME TypeOK, MakersInv, NEW g \in Makers, Build(g) \/ TakePreset(g) \/ Load(g)
    PROVE  MakersInv'
<1>1. CASE Build(g)
  BY <1>1, ConfigureMakers DEF Build, setupVars
<1>2. CASE TakePreset(g)
  BY <1>2, ConfigureMakers DEF TakePreset, setupVars
<1>3. ASSUME NEW source \in Documents, Refusal(Raw(source.env, source.file)) = NoError,
             Configure(g, ApplyRaw(Raw(source.env, source.file)), g, source),
             ruleMaps' = [ruleMaps EXCEPT ![g] = LoadedRules(Raw(source.env, source.file))],
             UNCHANGED <<registry, registrations, cause>>
      PROVE  MakersInv'
  <2>1. /\ ruleMaps'[g] = LoadedRules(Raw(source.env, source.file))
        /\ \A h \in Makers \ {g} : ruleMaps'[h] = ruleMaps[h]
    BY <1>3 DEF TypeOK, SetupTypes
  <2>. QED
    BY <1>3, <2>1, ConfigureMakers
<1>4. ASSUME NEW source \in Documents, NEW why, Reject(g, source, why),
             LET raw == Raw(source.env, source.file) IN
             \/ why = Refusal(raw) /\ Refusal(raw) # NoError /\ faults' = faults
             \/ why = "read" /\ source.file # << >> /\ Fault
             \/ why = "open" /\ OpensOutput(raw) /\ Fault
      PROVE  MakersInv'
  <2>1. /\ pc[g] = "idle" /\ pc'[g] = "failed" /\ document'[g] = source /\ cause'[g] = why
        /\ \A h \in Makers \ {g} :
             /\ pc'[h] = pc[h] /\ cfg'[h] = cfg[h] /\ document'[h] = document[h]
             /\ cause'[h] = cause[h] /\ encoder'[h] = encoder[h]
        /\ UNCHANGED <<cfg, encoder, setupVars>>
    BY <1>4 DEF Reject, Fail, TypeOK, MakerTypes
  <2>2. /\ faults' = faults \/ faults' = faults - 1
        /\ Fault => faults' < MaxFaults
    BY <1>4, Bounds DEF Fault, TypeOK
  <2>3. MakerInv(g)'
    <3>1. LoadedInv(g)' /\ AcceptedInv(g)' /\ LookInv(g)' /\ EncoderInv(g)'
      BY <2>1 DEF LoadedInv, AcceptedInv, LookInv, EncoderInv
    <3>2. RefusedInv(g)'
      <4>1. CASE why = Refusal(Raw(source.env, source.file)) /\ why # NoError
        <5>1. why \in {"level", "strategy", "mode", "output", "colours", "rules"}
          BY <4>1, Refused DEF Refusals
        <5>. QED
          BY <2>1, <4>1, <5>1 DEF RefusedInv, RefusedForCause
      <4>2. CASE why = "read" /\ source.file # << >> /\ Fault
        BY <2>1, <2>2, <4>2 DEF RefusedInv, RefusedForCause
      <4>3. CASE why = "open" /\ OpensOutput(Raw(source.env, source.file)) /\ Fault
        BY <2>1, <2>2, <4>3 DEF RefusedInv, RefusedForCause
      <4>. QED
        BY <1>4, <4>1, <4>2, <4>3
    <3>. QED
      BY <3>1, <3>2 DEF MakerInv
  <2>. QED
    BY <2>1, <2>2, <2>3, OthersKept DEF setupVars
<1>. QED
  BY <1>1, <1>2, <1>3, <1>4 DEF Load

\* A configuration that came from a document has a level and an output.
LEMMA LoadedIsAccepted ==
    ASSUME TypeOK, MakersInv, NEW g \in Makers, pc[g] = "configured",
           cfg[g].level \notin AllLevels \/ cfg[g].sinks = << >>
    PROVE  document[g] = Nothing
<1>. SUFFICES ASSUME document[g] # Nothing PROVE FALSE
  OBVIOUS
<1>1. PICK source \in Documents : document[g] = source
  BY DEF TypeOK, MakerTypes
<1>2. /\ Refusal(Raw(source.env, source.file)) = NoError
      /\ cfg[g] = ApplyRaw(Raw(source.env, source.file))
  BY <1>1 DEF MakersInv, MakerInv, LoadedInv
<1>. QED
  BY <1>2, RawDecodes, ApplyRawType

LEMMA FailMakers ==
    ASSUME TypeOK, MakersInv, NEW g \in Makers, NEW why, Fail(g, why), pc[g] # "idle",
           UNCHANGED <<cfg, document, encoder, setupVars>>,
           faults' = faults \/ faults' = faults - 1,
           RefusedForCause(g)'
    PROVE  MakersInv'
<1>1. /\ pc'[g] = "failed"
      /\ \A h \in Makers \ {g} :
             /\ pc'[h] = pc[h] /\ cfg'[h] = cfg[h] /\ document'[h] = document[h]
             /\ cause'[h] = cause[h] /\ encoder'[h] = encoder[h]
  BY DEF Fail, TypeOK, MakerTypes
<1>2. MakerInv(g)'
  <2>1. LoadedInv(g)' /\ AcceptedInv(g)' /\ LookInv(g)' /\ EncoderInv(g)'
    BY <1>1 DEF LoadedInv, AcceptedInv, LookInv, EncoderInv
  <2>. QED
    BY <2>1 DEF MakerInv, RefusedInv
<1>. QED
  BY <1>1, <1>2, OthersKept DEF setupVars

LEMMA NewAdapterMakers ==
    ASSUME TypeOK, MakersInv, NEW g \in Makers, NewAdapter(g)
    PROVE  MakersInv'
<1>. DEFINE c == PreparedOutput(cfg[g])
<1>1. cfg[g] \in Configs
  BY DEF TypeOK, MakerTypes
<1>2. /\ pc[g] = "configured" /\ UNCHANGED <<document, encoder, setupVars>>
      /\ faults' = faults \/ faults' = faults - 1
      /\ \/ c.path # Unset /\ Fault /\ Fail(g, "open") /\ cfg' = cfg
         \/ c.level \notin AllLevels /\ Fail(g, "level") /\ cfg' = cfg
         \/ c.sinks = << >> /\ Fail(g, "output") /\ cfg' = cfg
         \/ /\ c.level \in AllLevels /\ c.sinks # << >>
            /\ cfg' = [cfg EXCEPT ![g] = Validated(c)]
            /\ pc' = [pc EXCEPT ![g] = "encoder"]
            /\ cause' = cause
  BY DEF NewAdapter, Fault
<1>3. ASSUME NEW why, Fail(g, why) PROVE cause'[g] = why
  BY <1>3 DEF Fail, TypeOK, MakerTypes
<1>4. CASE c.path # Unset /\ Fault /\ Fail(g, "open") /\ cfg' = cfg
  <2>1. cfg[g].path # Unset /\ faults' < MaxFaults
    BY <1>1, <1>4, Bounds DEF PreparedOutput, Fault, TypeOK
  <2>2. RefusedForCause(g)'
    BY <1>3, <1>4, <2>1 DEF RefusedForCause
  <2>. QED
    BY <1>2, <1>4, <2>2, FailMakers
<1>5. CASE c.level \notin AllLevels /\ Fail(g, "level") /\ cfg' = cfg
  <2>1. cfg[g].level \notin AllLevels
    BY <1>1, <1>5, PreparedType
  <2>2. document[g] = Nothing
    BY <1>2, <2>1, LoadedIsAccepted
  <2>3. RefusedForCause(g)'
    BY <1>2, <1>3, <1>5, <2>1, <2>2 DEF RefusedForCause, Nothing
  <2>. QED
    BY <1>2, <1>5, <2>3, FailMakers
<1>6. CASE c.sinks = << >> /\ Fail(g, "output") /\ cfg' = cfg
  <2>1. cfg[g].sinks = << >>
    BY <1>1, <1>6, PreparedType
  <2>2. document[g] = Nothing
    BY <1>2, <2>1, LoadedIsAccepted
  <2>3. RefusedForCause(g)'
    BY <1>2, <1>3, <1>6, <2>1, <2>2 DEF RefusedForCause, Nothing
  <2>. QED
    BY <1>2, <1>6, <2>3, FailMakers
<1>7. CASE /\ c.level \in AllLevels /\ c.sinks # << >>
           /\ cfg' = [cfg EXCEPT ![g] = Validated(c)]
           /\ pc' = [pc EXCEPT ![g] = "encoder"]
           /\ cause' = cause
  <2>. DEFINE v == Validated(c)
  <2>1. /\ v.level = cfg[g].level /\ v.level \in AllLevels /\ v.sinks # << >>
        /\ v.encoderName = cfg[g].encoderName /\ v.registry = cfg[g].registry
        /\ v.strategy \in {"drop_newest", "drop_oldest", "block", "handoff"}
    BY <1>1, <1>7, PreparedType
  <2>. HIDE DEF v, c
  <2>2. /\ pc'[g] = "encoder" /\ cfg'[g] = v
        /\ \A h \in Makers \ {g} :
             /\ pc'[h] = pc[h] /\ cfg'[h] = cfg[h] /\ document'[h] = document[h]
             /\ cause'[h] = cause[h] /\ encoder'[h] = encoder[h]
    BY <1>2, <1>7 DEF TypeOK, MakerTypes, v
  <2>3. MakerInv(g)'
    <3>1. LoadedInv(g)'
      BY <1>2, <2>2 DEF MakersInv, MakerInv, LoadedInv, setupVars, v, c
    <3>2. AcceptedInv(g)'
      BY <2>1, <2>2 DEF AcceptedInv
    <3>3. LookInv(g)' /\ EncoderInv(g)' /\ RefusedInv(g)'
      BY <2>2 DEF LookInv, EncoderInv, RefusedInv
    <3>. QED
      BY <3>1, <3>2, <3>3 DEF MakerInv
  <2>. QED
    BY <1>2, <2>1, <2>2, <2>3, OthersKept DEF setupVars
<1>. QED
  BY <1>2, <1>4, <1>5, <1>6, <1>7

\* A step of g between NewAdapter and its end that gives it an encoder.
LEMMA ResolvedMakers ==
    ASSUME TypeOK, MakersInv, NEW g \in Makers, NEW e, Resolved(g, e),
           pc[g] \in {"encoder", "resolve"},
           UNCHANGED <<cfg, document, setupVars, faults>>,
           e = Unset => cfg[g].encoderName \notin {Unset, "json", "console"},
           e # Unset => /\ e = IF cfg[g].encoder # Unset THEN cfg[g].encoder
                               ELSE IF cfg[g].registry = "own" THEN Wanted(cfg[g])
                               ELSE registry[Wanted(cfg[g])]
                        /\ cfg[g].encoder = Unset /\ cfg[g].registry = "shared" =>
                               Wanted(cfg[g]) \in DOMAIN registry
    PROVE  MakersInv'
<1>1. CASE e = Unset
  <2>1. Fail(g, "encoder") /\ encoder' = encoder
    BY <1>1 DEF Resolved
  <2>2. cause'[g] = "encoder"
    BY <2>1 DEF Fail, TypeOK, MakerTypes
  <2>3. RefusedForCause(g)'
    BY <1>1, <2>2 DEF RefusedForCause
  <2>. QED
    BY <2>1, <2>3, FailMakers
<1>2. CASE e # Unset
  <2>1. /\ pc' = [pc EXCEPT ![g] = "finish"] /\ encoder' = [encoder EXCEPT ![g] = e]
        /\ cause' = cause
    BY <1>2 DEF Resolved
  <2>2. /\ pc'[g] = "finish" /\ encoder'[g] = e
        /\ \A h \in Makers \ {g} :
             /\ pc'[h] = pc[h] /\ cfg'[h] = cfg[h] /\ document'[h] = document[h]
             /\ cause'[h] = cause[h] /\ encoder'[h] = encoder[h]
    BY <2>1 DEF TypeOK, MakerTypes
  <2>3. MakerInv(g)'
    <3>1. LoadedInv(g)' /\ AcceptedInv(g)'
      BY <2>2 DEF MakersInv, MakerInv, LoadedInv, AcceptedInv, setupVars
    <3>2. LookInv(g)' /\ RefusedInv(g)'
      BY <2>2 DEF LookInv, RefusedInv
    <3>3. EncoderInv(g)'
      BY <1>2, <2>2 DEF EncoderInv, EncoderAsWanted, setupVars
    <3>. QED
      BY <3>1, <3>2, <3>3 DEF MakerInv
  <2>. QED
    BY <2>2, <2>3, OthersKept DEF setupVars
<1>. QED
  BY <1>1, <1>2

LEMMA WantedDefault ==
    ASSUME NEW c, Wanted(c) \notin {"console", "json"}
    PROVE  c.encoderName \notin {Unset, "json", "console"}
BY DEF Wanted

LEMMA ResolveDefaults ==
    ASSUME NEW c \in Configs
    PROVE  LET found == Resolve(c, Defaults) IN
           \/ found = Unset /\ Wanted(c) \notin {"console", "json"}
           \/ found # Unset /\ found = Wanted(c)
BY DEF Resolve, Wanted, Defaults, Unset

LEMMA ResolveAloneMakers ==
    ASSUME TypeOK, MakersInv, NEW g \in Makers, ResolveAlone(g)
    PROVE  MakersInv'
<1>. DEFINE found == Resolve(cfg[g], Defaults)
            e == IF cfg[g].encoder # Unset THEN cfg[g].encoder ELSE found
<1>1. /\ cfg[g] \in Configs
      /\ cfg[g].encoder # Unset \/ cfg[g].registry = "own"
      /\ pc[g] = "encoder" /\ Resolved(g, e) /\ UNCHANGED <<cfg, document, setupVars, faults>>
  BY DEF ResolveAlone, TypeOK, MakerTypes
<1>2. \/ found = Unset /\ Wanted(cfg[g]) \notin {"console", "json"}
      \/ found # Unset /\ found = Wanted(cfg[g])
  BY <1>1, ResolveDefaults
<1>. HIDE DEF found
<1>4. e = Unset => cfg[g].encoderName \notin {Unset, "json", "console"}
  BY <1>2, WantedDefault
<1>5. "own" # "shared"
  OBVIOUS
<1>6. e # Unset => e = IF cfg[g].encoder # Unset THEN cfg[g].encoder
                       ELSE IF cfg[g].registry = "own" THEN Wanted(cfg[g])
                       ELSE registry[Wanted(cfg[g])]
  BY <1>1, <1>2
<1>7. ~(cfg[g].encoder = Unset /\ cfg[g].registry = "shared")
  BY <1>1, <1>5
<1>. HIDE DEF e
<1>. QED
  BY <1>1, <1>4, <1>6, <1>7, ResolvedMakers

LEMMA ResolveSharedMakers ==
    ASSUME TypeOK, MakersInv, NEW g \in Makers, ResolveShared(g)
    PROVE  MakersInv'
<1>. DEFINE e == Resolve(cfg[g], registry)
<1>1. /\ cfg[g] \in Configs /\ cfg[g].encoder = Unset /\ cfg[g].registry = "shared"
      /\ {"console", "json"} \subseteq DOMAIN registry
      /\ pc[g] = "resolve" /\ Resolved(g, e) /\ UNCHANGED <<cfg, document, setupVars, faults>>
  BY DEF ResolveShared, TypeOK, MakerTypes, MakersInv, MakerInv, LookInv
<1>2. /\ e = Unset => Wanted(cfg[g]) \notin DOMAIN registry
      /\ e # Unset => Wanted(cfg[g]) \in DOMAIN registry /\ e = registry[Wanted(cfg[g])]
  BY <1>1, ResolveType DEF TypeOK, SetupTypes
<1>. HIDE DEF e
<1>3. e = Unset => cfg[g].encoderName \notin {Unset, "json", "console"}
  BY <1>1, <1>2, WantedDefault
<1>4. e # Unset => e = IF cfg[g].encoder # Unset THEN cfg[g].encoder
                       ELSE IF cfg[g].registry = "own" THEN Wanted(cfg[g])
                       ELSE registry[Wanted(cfg[g])]
  BY <1>1, <1>2
<1>. QED
  BY <1>1, <1>2, <1>3, <1>4, ResolvedMakers

LEMMA LookUpMakers ==
    ASSUME TypeOK, MakersInv, NEW g \in Makers,
           \/ LookUp(g, "encoder", "console", "add console", "look json")
           \/ LookUp(g, "look json", "json", "add json", "resolve")
    PROVE  MakersInv'
<1>1. /\ cfg[g].encoder = Unset /\ cfg[g].registry = "shared"
      /\ UNCHANGED <<cfg, document, cause, encoder, setupVars, faults>>
  BY DEF LookUp
<1>2. \A h \in Makers \ {g} : pc'[h] = pc[h]
  BY DEF LookUp, TypeOK, MakerTypes
<1>3. \/ pc[g] = "encoder" /\ pc'[g] = IF "console" \in DOMAIN registry THEN "look json" ELSE "add console"
      \/ pc[g] = "look json" /\ pc'[g] = IF "json" \in DOMAIN registry THEN "resolve" ELSE "add json"
  BY DEF LookUp, TypeOK, MakerTypes
<1>4. MakerInv(g)'
  <2>1. LoadedInv(g)' /\ AcceptedInv(g)'
    BY <1>1, <1>3 DEF MakersInv, MakerInv, LoadedInv, AcceptedInv, setupVars
  <2>2. LookInv(g)'
    BY <1>1, <1>3 DEF MakersInv, MakerInv, LookInv, setupVars
  <2>3. EncoderInv(g)' /\ RefusedInv(g)'
    BY <1>3 DEF EncoderInv, RefusedInv
  <2>. QED
    BY <2>1, <2>2, <2>3 DEF MakerInv
<1>. QED
  BY <1>1, <1>2, <1>3, <1>4, OthersKept DEF setupVars

LEMMA RegisterDefaultMakers ==
    ASSUME TypeOK, MakersInv, NEW g \in Makers,
           \/ RegisterDefault(g, "add console", "console", "look json")
           \/ RegisterDefault(g, "add json", "json", "resolve")
    PROVE  MakersInv'
<1>1. PICK label \in {"add console", "add json"} :
        LET name == IF label = "add console" THEN "console" ELSE "json"
            next == IF label = "add console" THEN "look json" ELSE "resolve"
        IN RegisterDefault(g, label, name, next)
  OBVIOUS
<1>. DEFINE name == IF label = "add console" THEN "console" ELSE "json"
            next == IF label = "add console" THEN "look json" ELSE "resolve"
<1>2. RegisterDefault(g, label, name, next)
  BY <1>1
<1>3. /\ cfg[g].encoder = Unset /\ cfg[g].registry = "shared" /\ pc[g] = label
      /\ name \in DOMAIN registry => Rivals(g)
      /\ label = "add json" => "console" \in DOMAIN registry
  BY <1>2 DEF MakersInv, MakerInv, LookInv, RegisterDefault
<1>4. UNCHANGED <<cfg, document, encoder, registrations, ruleMaps, faults>>
  BY <1>2 DEF RegisterDefault
<1>5. CASE name \in DOMAIN registry
  <2>1. Fail(g, "taken") /\ UNCHANGED <<cfg, document, encoder, setupVars>>
    BY <1>2, <1>5 DEF RegisterDefault, setupVars
  <2>2. cause'[g] = "taken" /\ \A h \in Makers : pc[h] # "idle" => pc'[h] # "idle"
    BY <2>1 DEF Fail, TypeOK, MakerTypes
  <2>3. Rivals(g)'
    BY <1>3, <1>4, <1>5, <2>2, RivalsStay
  <2>4. RefusedForCause(g)'
    BY <1>3, <1>4, <2>2, <2>3 DEF RefusedForCause
  <2>. QED
    BY <1>3, <1>4, <2>1, <2>4, FailMakers
<1>6. CASE name \notin DOMAIN registry
  <2>1. Register(name, name) /\ pc' = [pc EXCEPT ![g] = next] /\ cause' = cause
    BY <1>2, <1>6 DEF RegisterDefault
  <2>2. pc'[g] = next /\ \A h \in Makers \ {g} : pc'[h] = pc[h]
    BY <2>1 DEF TypeOK, MakerTypes
  <2>3. DOMAIN registry' = DOMAIN registry \cup {name}
          /\ \A n \in DOMAIN registry : registry'[n] = registry[n]
    BY <1>6, <2>1, RegisterFacts
  <2>4. MakerInv(g)'
    <3>1. LoadedInv(g)' /\ AcceptedInv(g)'
      BY <1>3, <1>4, <2>2 DEF MakersInv, MakerInv, LoadedInv, AcceptedInv
    <3>2. LookInv(g)'
      BY <1>3, <1>4, <2>2, <2>3 DEF LookInv
    <3>3. EncoderInv(g)' /\ RefusedInv(g)'
      BY <2>2 DEF EncoderInv, RefusedInv
    <3>. QED
      BY <3>1, <3>2, <3>3 DEF MakerInv
  <2>5. pc[g] # "idle" /\ pc'[g] # "idle"
    BY <1>3, <2>2
  <2>. QED
    BY <1>3, <1>4, <2>1, <2>2, <2>3, <2>4, <2>5, OthersKept
<1>. QED
  BY <1>5, <1>6

LEMMA FinishMakers ==
    ASSUME TypeOK, MakersInv, NEW g \in Makers, Finish(g)
    PROVE  MakersInv'
<1>1. pc[g] = "finish" /\ UNCHANGED <<cfg, document, encoder, setupVars, faults>>
  BY DEF Finish
<1>2. CASE IsInjective(cfg[g].hooks)
  <2>1. /\ pc'[g] = "ready" /\ cause' = cause
        /\ \A h \in Makers \ {g} : pc'[h] = pc[h]
    BY <1>2 DEF Finish, TypeOK, MakerTypes
  <2>2. MakerInv(g)'
    <3>1. LoadedInv(g)' /\ AcceptedInv(g)'
      BY <1>1, <2>1 DEF MakersInv, MakerInv, LoadedInv, AcceptedInv, setupVars
    <3>2. EncoderInv(g)'
      BY <1>1, <2>1 DEF MakersInv, MakerInv, EncoderInv, EncoderAsWanted, setupVars
    <3>3. LookInv(g)' /\ RefusedInv(g)'
      BY <2>1 DEF LookInv, RefusedInv
    <3>. QED
      BY <3>1, <3>2, <3>3 DEF MakerInv
  <2>. QED
    BY <1>1, <2>1, <2>2, OthersKept DEF setupVars
<1>3. CASE ~IsInjective(cfg[g].hooks)
  <2>1. Fail(g, "hook")
    BY <1>3 DEF Finish
  <2>2. cause'[g] = "hook"
    BY <2>1 DEF Fail, TypeOK, MakerTypes
  <2>3. cfg[g].hooks \in Seq(Strings)
    BY DEF TypeOK, MakerTypes, Configs
  <2>4. Len(cfg[g].hooks) > 1
    <3>1. PICK i, j \in DOMAIN cfg[g].hooks : i # j
      BY <1>3 DEF IsInjective
    <3>. QED
      BY <2>3, <3>1
  <2>5. RefusedForCause(g)'
    BY <1>1, <2>2, <2>4 DEF RefusedForCause
  <2>. QED
    BY <1>1, <2>1, <2>5, FailMakers
<1>. QED
  BY <1>2, <1>3

-----------------------------------------------------------------------------
(* Counting. *)

LEMMA QuotientStep ==
    ASSUME NEW m \in Nat, NEW t \in Nat, t >= 2
    PROVE  (m + 1) \div t = m \div t + (IF (m + 1) % t = 0 THEN 1 ELSE 0)
OBVIOUS

\* One more entry, and whether it passes.
LEMMA ShareStep ==
    ASSUME NEW rule, rule.enabled = TRUE, rule.initial \in Nat, rule.thereafter \in Nat, NEW n \in Nat
    PROVE  /\ Share(rule, n) \in Int
           /\ Share(rule, n + 1) = Share(rule, n) + (IF Allowed(rule, n + 1) THEN 1 ELSE 0)
<1>. DEFINE i == rule.initial
            t == rule.thereafter
<1>1. i \in Nat /\ t \in Nat
  OBVIOUS
<1>2. \A c \in Nat : Share(rule, c) = IF t <= 1 \/ c <= i THEN c ELSE i + (c - i) \div t
  BY DEF Share
<1>3. \A c \in Nat : Allowed(rule, c) <=> c <= i \/ t <= 1 \/ (c - i) % t = 0
  BY DEF Allowed
<1>. HIDE DEF i, t
<1>4. CASE t <= 1 \/ n + 1 <= i
  BY <1>1, <1>2, <1>3, <1>4
<1>5. CASE t >= 2 /\ n + 1 > i
  <2>. DEFINE m == n - i
  <2>1. m \in Nat /\ n + 1 - i = m + 1
    BY <1>1, <1>5
  <2>2. (m + 1) \div t = m \div t + (IF (m + 1) % t = 0 THEN 1 ELSE 0)
    BY <1>1, <1>5, <2>1, QuotientStep
  <2>3. m = 0 => m \div t = 0
    BY <1>1, <1>5
  <2>4. m \div t \in Int
    BY <1>1, <1>5, <2>1
  <2>5. Share(rule, n) = i + m \div t
    BY <1>1, <1>2, <1>5, <2>1, <2>3
  <2>6. Share(rule, n + 1) = i + (m + 1) \div t
    BY <1>1, <1>2, <1>5, <2>1
  <2>7. Allowed(rule, n + 1) <=> (m + 1) % t = 0
    BY <1>1, <1>3, <1>5, <2>1
  <2>. HIDE DEF m
  <2>. QED
    BY <1>1, <2>2, <2>4, <2>5, <2>6, <2>7
<1>. QED
  BY <1>1, <1>4, <1>5

LEMMA ShareOfNone ==
    ASSUME NEW rule, rule.initial \in Nat
    PROVE  Share(rule, 0) = 0
BY DEF Share

LEMMA SumType ==
    ASSUME NEW counts \in Counts, NEW levels \in SUBSET CallLevels
    PROVE  Sum(counts, levels) \in Nat
<1>1. \A i \in Int : At(counts, levels, i) \in Nat
  BY DEF At, Counts
<1>. QED
  BY <1>1 DEF Sum

LEMMA SumMore ==
    ASSUME NEW counts \in Counts, NEW levels \in SUBSET CallLevels, NEW l \in CallLevels
    PROVE  Sum([counts EXCEPT ![l] = @ + 1], levels)
               = Sum(counts, levels) + (IF l \in levels THEN 1 ELSE 0)
<1>. DEFINE more == [counts EXCEPT ![l] = @ + 1]
<1>1. \A i \in Int : At(counts, levels, i) \in Nat
  BY DEF At, Counts
<1>2. \A i \in Int : At(more, levels, i)
          = At(counts, levels, i) + (IF i = l /\ l \in levels THEN 1 ELSE 0)
  BY DEF At, Counts
<1>3. l \in 0 .. 5
  BY SetupAssumption DEF AllLevels
<1>. HIDE DEF more
<1>4. Sum(more, levels) = Sum(counts, levels) + (IF l \in levels THEN 1 ELSE 0)
  <2>1. PICK a, b, c \in Nat :
          At(counts, levels, 0) = a /\ At(counts, levels, 1) = b /\ At(counts, levels, 2) = c
    BY <1>1
  <2>0. PICK d, e, f \in Nat :
          At(counts, levels, 3) = d /\ At(counts, levels, 4) = e /\ At(counts, levels, 5) = f
    BY <1>1
  <2>2. Sum(counts, levels) = a + b + c + d + e + f
    BY <2>0, <2>1 DEF Sum
  <2>. DEFINE one(i) == IF i = l /\ l \in levels THEN 1 ELSE 0
  <2>3. Sum(more, levels) = (a + one(0)) + (b + one(1)) + (c + one(2))
                                + (d + one(3)) + (e + one(4)) + (f + one(5))
    BY <1>2, <2>0, <2>1 DEF Sum
  <2>. QED
    <3>1. CASE l \in levels
      BY <1>3, <2>2, <2>3, <3>1
    <3>2. CASE l \notin levels
      BY <2>2, <2>3, <3>2
    <3>. QED
      BY <3>1, <3>2
<1>. QED
  BY <1>4 DEF more

LEMMA SumSame ==
    ASSUME NEW counts \in Counts, NEW levels \in SUBSET CallLevels, NEW l \in CallLevels, l \notin levels
    PROVE  Sum([counts EXCEPT ![l] = @ + 1], levels) = Sum(counts, levels)
BY SumMore, SumType

LEMMA SamplerFacts ==
    ASSUME TypeOK, SamplingInv, NEW g \in Makers, sampler[g] # << >>
    PROVE  /\ pc[g] = "ready" /\ DefaultRule \in DOMAIN sampler[g]
           /\ \A k \in DOMAIN sampler[g] :
                 /\ sampler[g][k].enabled \in BOOLEAN
                 /\ sampler[g][k].initial \in Nat /\ sampler[g][k].thereafter \in Nat
<1>1. pc[g] = "ready" /\ sampler[g] = NewLogSampler(asked[g].sampling, asked[g].rules)
  BY DEF SamplingInv, RulesInv
<1>2. asked[g].sampling \in SamplingSettings /\ IsRules(asked[g].rules, AllLevels)
  BY DEF TypeOK, MakerTypes
<1>3. \A k \in DOMAIN sampler[g] : sampler[g][k] \in Thresholds
  BY DEF TypeOK, SamplingTypes, IsRules
<1>. QED
  BY <1>1, <1>2, <1>3, SamplerRules DEF Thresholds

LEMMA CallersAreFinite ==
    ASSUME NEW g, NEW k
    PROVE  /\ Sampled(g, k) \in SUBSET CallLevels
           /\ IsFiniteSet(Deciding(g, k)) /\ Cardinality(Deciding(g, k)) \in Nat
           /\ IsFiniteSet(Passing(g, k)) /\ Cardinality(Passing(g, k)) \in Nat
<1>1. Sampled(g, k) \in SUBSET CallLevels
  BY DEF Sampled
<1>2. Deciding(g, k) \in SUBSET Callers /\ Passing(g, k) \in SUBSET Callers
  BY DEF Deciding, Passing
<1>. QED
  BY <1>1, <1>2, SetupAssumption, FS_Subset, FS_CardinalityType

\* A level that is sampled has a rule that is on, and no other.
LEMMA SampledLevel ==
    ASSUME TypeOK, SamplingInv, NEW g \in Makers, sampler[g] # << >>, NEW l \in CallLevels,
           ~AlwaysAllowed(sampler[g], l)
    PROVE  LET k == RuleKey(sampler[g], l) IN
           /\ k \in DOMAIN sampler[g] /\ sampler[g][k].enabled = TRUE
           /\ l \in Sampled(g, k) /\ \A j : j # k => l \notin Sampled(g, j)
<1>1. RuleKey(sampler[g], l) \in DOMAIN sampler[g]
  BY SamplerFacts, RuleOfLevel, SetupAssumption
<1>. QED
  BY <1>1, SamplerFacts DEF AlwaysAllowed, Sampled

\* Steps that leave a logger's counts alone.
LEMMA CountsKept ==
    ASSUME NEW h \in Makers, CountInv(h),
           sampler'[h] = sampler[h], counters'[h] = counters[h],
           seen'[h] = seen[h], passed'[h] = passed[h],
           \A x \in Callers : call[x].logger = h \/ call'[x].logger = h => call'[x] = call[x]
    PROVE  CountInv(h)'
<1>. SUFFICES ASSUME NEW k \in DOMAIN sampler[h] PROVE ShareInv(h, k)'
  BY DEF CountInv
<1>1. Sampled(h, k)' = Sampled(h, k)
  BY DEF Sampled
<1>2. Deciding(h, k)' = Deciding(h, k)
  BY <1>1 DEF Deciding
<1>3. Passing(h, k)' = Passing(h, k)
  BY <1>2 DEF Passing, Deciding
<1>4. Sum(seen[h], Sampled(h, k))' = Sum(seen[h], Sampled(h, k))
        /\ Sum(passed[h], Sampled(h, k))' = Sum(passed[h], Sampled(h, k))
  BY <1>1 DEF Sum, At
<1>5. Share(sampler[h][k], counters[h][k])' = Share(sampler[h][k], counters[h][k])
  BY DEF Share
<1>. QED
  BY <1>1, <1>2, <1>3, <1>4, <1>5 DEF CountInv, ShareInv

\* Steps that do not sample: a maker gets its rules once.
LEMMA SamplingKept ==
    ASSUME SamplingInv, UNCHANGED samplingVars,
           \A g \in Makers : /\ AskedInv(g)'
                             /\ pc'[g] = "ready" <=> pc[g] = "ready"
                             /\ pc[g] = "ready" => asked'[g] = asked[g]
    PROVE  SamplingInv'
<1>1. ASSUME NEW g \in Makers PROVE RulesInv(g)'
  BY DEF SamplingInv, RulesInv, samplingVars
<1>2. ASSUME NEW g \in Makers PROVE CountInv(g)'
  BY CountsKept DEF SamplingInv, samplingVars
<1>3. ASSUME NEW t \in Callers PROVE CallInv(t)'
  BY DEF SamplingInv, CallInv, samplingVars
<1>. QED
  BY <1>1, <1>2, <1>3 DEF SamplingInv

Between == Labels \ {"idle", "configured", "ready", "failed"}

LEMMA ConfiguringSampling ==
    ASSUME TypeOK, SamplingInv,
           \/ UseBuilder
           \/ \E g \in Makers : Build(g) \/ TakePreset(g) \/ Load(g)
    PROVE  SamplingInv'
<1>1. NobodyBuilds /\ UNCHANGED samplingVars
  BY DEF UseBuilder, With, WithHook, WithSamplingRule, Change, Build, TakePreset, Load, Configure, Reject
<1>2. /\ asked' = asked
      /\ \/ pc' = pc
         \/ \E g \in Makers, label \in {"configured", "failed"} :
                pc[g] = "idle" /\ pc' = [pc EXCEPT ![g] = label]
  BY DEF UseBuilder, With, WithHook, WithSamplingRule, makerVars, Build, TakePreset, Load, Configure,
     Reject, Fail
<1>3. \A h \in Makers : pc'[h] \notin Between /\ (pc'[h] = "ready" <=> pc[h] = "ready")
  BY <1>1, <1>2 DEF NobodyBuilds, Between, TypeOK, MakerTypes
<1>4. \A h \in Makers : AskedInv(h)'
  BY <1>3 DEF AskedInv, Between
<1>. QED
  BY <1>1, <1>2, <1>3, <1>4, SamplingKept

LEMMA AskedKept ==
    ASSUME SamplingInv, NEW h \in Makers, pc'[h] \in Between => pc[h] \in Between,
           asked'[h] = asked[h], cfg'[h] = cfg[h], rulesOf' = rulesOf, ruleMaps' = ruleMaps
    PROVE  AskedInv(h)'
BY DEF SamplingInv, AskedInv, Between

LEMMA RegisterEncoderSampling ==
    ASSUME TypeOK, SamplingInv, NEW name, RegisterEncoder(name)
    PROVE  SamplingInv'
<1>1. \A h \in Makers : AskedInv(h)'
  BY AskedKept DEF RegisterEncoder, makerVars
<1>. QED
  BY <1>1, SamplingKept DEF RegisterEncoder, makerVars

LEMMA NewAdapterSampling ==
    ASSUME TypeOK, SamplingInv, NEW g \in Makers, NewAdapter(g)
    PROVE  SamplingInv'
<1>1. /\ pc[g] = "configured" /\ UNCHANGED <<rulesOf, ruleMaps, samplingVars>>
      /\ \E label \in {"encoder", "failed"} : pc' = [pc EXCEPT ![g] = label]
      /\ asked' = [asked EXCEPT ![g] = [sampling |-> cfg[g].sampling, rules |-> ruleMaps[rulesOf[g]]]]
  BY DEF NewAdapter, Fail, setupVars
<1>2. cfg' = cfg \/ cfg' = [cfg EXCEPT ![g] = Validated(PreparedOutput(cfg[g]))]
  BY DEF NewAdapter
<1>3. Validated(PreparedOutput(cfg[g])).sampling = cfg[g].sampling
  BY PreparedType DEF TypeOK, MakerTypes
<1>4. /\ asked'[g] = [sampling |-> cfg[g].sampling, rules |-> ruleMaps[rulesOf[g]]]
      /\ cfg'[g].sampling = cfg[g].sampling /\ pc'[g] \in {"encoder", "failed"}
      /\ \A h \in Makers \ {g} : pc'[h] = pc[h] /\ asked'[h] = asked[h] /\ cfg'[h] = cfg[h]
  BY <1>1, <1>2, <1>3 DEF TypeOK, MakerTypes
<1>5. AskedInv(g)'
  BY <1>1, <1>4 DEF AskedInv
<1>6. \A h \in Makers \ {g} : AskedInv(h)'
  BY <1>1, <1>4, AskedKept
<1>7. \A h \in Makers : /\ pc'[h] = "ready" <=> pc[h] = "ready"
                        /\ pc[h] = "ready" => asked'[h] = asked[h]
  BY <1>1, <1>4
<1>. QED
  BY <1>1, <1>5, <1>6, <1>7, SamplingKept

LEMMA EncoderSampling ==
    ASSUME TypeOK, SamplingInv, NEW g \in Makers,
           ResolveAlone(g) \/ EnsureEncoderRegistry(g) \/ ResolveShared(g)
    PROVE  SamplingInv'
<1>1. /\ UNCHANGED <<asked, cfg, rulesOf, ruleMaps, samplingVars>>
      /\ pc[g] \in Between
      /\ \E label \in {"add console", "look json", "add json", "resolve", "finish", "failed"} :
            pc' = [pc EXCEPT ![g] = label]
  <2>1. CASE ResolveAlone(g)
    BY <2>1 DEF ResolveAlone, Resolved, Fail, setupVars, Between, Labels
  <2>2. CASE ResolveShared(g)
    BY <2>2 DEF ResolveShared, Resolved, Fail, setupVars, Between, Labels
  <2>4. ASSUME NEW label \in Between, NEW name, NEW next, RegisterDefault(g, label, name, next)
        PROVE  /\ UNCHANGED <<asked, cfg, rulesOf, ruleMaps, samplingVars>> /\ pc[g] \in Between
               /\ \E l \in {"failed", next} : pc' = [pc EXCEPT ![g] = l]
    BY <2>4 DEF RegisterDefault, Fail
  <2>5. {"encoder", "add console", "look json", "add json"} \subseteq Between
    BY DEF Between, Labels
  <2>6. CASE LookUp(g, "encoder", "console", "add console", "look json")
    BY <2>5, <2>6 DEF LookUp, setupVars
  <2>7. CASE RegisterDefault(g, "add console", "console", "look json")
    BY <2>4, <2>5, <2>7
  <2>8. CASE LookUp(g, "look json", "json", "add json", "resolve")
    BY <2>5, <2>8 DEF LookUp, setupVars
  <2>9. CASE RegisterDefault(g, "add json", "json", "resolve")
    BY <2>4, <2>5, <2>9
  <2>. QED
    BY <2>1, <2>2, <2>6, <2>7, <2>8, <2>9 DEF EnsureEncoderRegistry
<1>2. \A h \in Makers : /\ pc'[h] \in Between => pc[h] \in Between
                        /\ pc'[h] = "ready" <=> pc[h] = "ready"
  BY <1>1 DEF TypeOK, MakerTypes, Between
<1>3. \A h \in Makers : AskedInv(h)'
  BY <1>1, <1>2, AskedKept
<1>. QED
  BY <1>1, <1>2, <1>3, SamplingKept

LEMMA FinishSampling ==
    ASSUME TypeOK, SamplingInv, NEW g \in Makers, Finish(g)
    PROVE  SamplingInv'
<1>. DEFINE rules == NewLogSampler(cfg[g].sampling, ruleMaps[rulesOf[g]])
<1>1. /\ pc[g] = "finish" /\ UNCHANGED <<cfg, rulesOf, ruleMaps, asked, call, seen, passed, calls>>
      /\ \E label \in {"ready", "failed"} : pc' = [pc EXCEPT ![g] = label]
  BY DEF Finish, Fail, setupVars
<1>2. \A h \in Makers : pc'[h] \in Between => pc[h] \in Between
  BY <1>1 DEF TypeOK, MakerTypes, Between
<1>3. \A h \in Makers : AskedInv(h)'
  BY <1>1, <1>2, AskedKept
<1>4. CASE ~IsInjective(cfg[g].hooks)
  <2>1. UNCHANGED samplingVars /\ pc'[g] = "failed" /\ \A h \in Makers \ {g} : pc'[h] = pc[h]
    BY <1>1, <1>4 DEF Finish, Fail, samplingVars, TypeOK, MakerTypes
  <2>2. \A h \in Makers : pc'[h] = "ready" <=> pc[h] = "ready"
    BY <1>1, <2>1
  <2>. QED
    BY <1>1, <1>3, <2>1, <2>2, SamplingKept
<1>5. CASE IsInjective(cfg[g].hooks)
  <2>1. /\ pc' = [pc EXCEPT ![g] = "ready"]
        /\ sampler' = [sampler EXCEPT ![g] = rules]
        /\ counters' = [counters EXCEPT ![g] = [k \in DOMAIN rules |-> 0]]
    BY <1>5 DEF Finish
  <2>2. rules = NewLogSampler(asked[g].sampling, asked[g].rules)
    <3>1. asked[g] = [sampling |-> cfg[g].sampling, rules |-> ruleMaps[rulesOf[g]]]
      BY <1>1 DEF SamplingInv, AskedInv, Labels
    <3>. QED
      BY <3>1
  <2>. HIDE DEF rules
  <2>3. /\ pc'[g] = "ready" /\ sampler'[g] = rules /\ counters'[g] = [k \in DOMAIN rules |-> 0]
        /\ \A h \in Makers \ {g} : pc'[h] = pc[h] /\ sampler'[h] = sampler[h]
                                    /\ counters'[h] = counters[h]
    BY <2>1 DEF TypeOK, MakerTypes, SamplingTypes
  <2>4. sampler[g] = << >>
    BY <1>1 DEF SamplingInv, RulesInv
  <2>5. \A h \in Makers : RulesInv(h)'
    BY <1>1, <2>2, <2>3 DEF SamplingInv, RulesInv
  <2>6. \A h \in Makers \ {g} : CountInv(h)'
    BY <1>1, <2>3, CountsKept DEF SamplingInv
  <2>7. \A t \in Callers : call[t] # Idle => call[t].logger \in Makers /\ call[t].logger # g
    BY <2>4 DEF SamplingInv, CallInv, TypeOK, SamplingTypes
  <2>8. \A t \in Callers : call[t].logger # g
    BY <2>7, Bounds DEF Idle
  <2>9. CountInv(g)'
    <3>1. \A l \in CallLevels : seen'[g][l] = 0 /\ passed'[g][l] = 0
      BY <1>1, <2>4 DEF SamplingInv, CountInv
    <3>2. ASSUME NEW k \in DOMAIN rules PROVE ShareInv(g, k)'
      <4>1. Deciding(g, k)' = {}
        BY <1>1, <2>8 DEF Deciding
      <4>2. Passing(g, k)' = {}
        BY <4>1 DEF Passing
      <4>3. Sum(seen[g], Sampled(g, k))' = 0 /\ Sum(passed[g], Sampled(g, k))' = 0
        BY <3>1 DEF Sum, At, Sampled
      <4>4. counters'[g][k] = 0
        BY <2>3
      <4>5. rules[k].initial \in Nat
        <5>1. asked[g].sampling \in SamplingSettings /\ IsRules(asked[g].rules, AllLevels)
          BY DEF TypeOK, MakerTypes
        <5>. QED
          BY <2>2, <5>1, SamplerRules
      <4>6. Share(sampler'[g][k], 0) = 0
        BY <2>3, <4>5, ShareOfNone
      <4>7. Share(sampler[g][k], counters[g][k])' = Share(sampler'[g][k], counters'[g][k])
        OBVIOUS
      <4>. QED
        BY <4>1, <4>2, <4>3, <4>4, <4>6, <4>7, FS_EmptySet DEF ShareInv
    <3>. QED
      BY <2>3, <3>1, <3>2 DEF CountInv
  <2>10. \A t \in Callers : CallInv(t)'
    BY <1>1, <2>3, <2>7 DEF SamplingInv, CallInv
  <2>. QED
    BY <1>3, <2>5, <2>6, <2>9, <2>10 DEF SamplingInv
<1>. QED
  BY <1>4, <1>5

\* A call that no rule is asked about.
LEMMA CountFreeSampling ==
    ASSUME TypeOK, SamplingInv, NEW t \in Callers, NEW g \in Makers, NEW level \in CallLevels,
           Count(t, g, level), AlwaysAllowed(sampler[g], level)
    PROVE  SamplingInv'
<1>1. /\ seen' = [seen EXCEPT ![g][level] = @ + 1] /\ passed' = [passed EXCEPT ![g][level] = @ + 1]
      /\ UNCHANGED <<counters, call, sampler, pc, cfg, rulesOf, ruleMaps, asked>> /\ sampler[g] # << >>
  BY DEF Count, makerVars, setupVars
<1>2. /\ seen[g] \in Counts /\ passed[g] \in Counts
      /\ seen'[g] = [seen[g] EXCEPT ![level] = @ + 1]
      /\ passed'[g] = [passed[g] EXCEPT ![level] = @ + 1]
      /\ \A h \in Makers \ {g} : seen'[h] = seen[h] /\ passed'[h] = passed[h]
  BY <1>1 DEF TypeOK, SamplingTypes
<1>3. \A h \in Makers \ {g} : CountInv(h)'
  BY <1>1, <1>2, CountsKept DEF SamplingInv
<1>4. CountInv(g)'
  <2>1. ASSUME NEW l \in CallLevels, AlwaysAllowed(sampler[g], l) PROVE passed'[g][l] = seen'[g][l]
    <3>1. passed[g][l] = seen[g][l] /\ passed[g][level] = seen[g][level]
      BY <1>1, <2>1 DEF SamplingInv, CountInv
    <3>. QED
      BY <1>2, <3>1 DEF Counts
  <2>2. ASSUME NEW k \in DOMAIN sampler[g] PROVE ShareInv(g, k)'
    <3>1. Sampled(g, k)' = Sampled(g, k) /\ Sampled(g, k) \in SUBSET CallLevels /\ level \notin Sampled(g, k)
      BY <1>1, CallersAreFinite DEF Sampled
    <3>2. /\ Sum([seen[g] EXCEPT ![level] = @ + 1], Sampled(g, k)) = Sum(seen[g], Sampled(g, k))
          /\ Sum([passed[g] EXCEPT ![level] = @ + 1], Sampled(g, k)) = Sum(passed[g], Sampled(g, k))
      BY <1>2, <3>1, SumSame
    <3>3. /\ Sum(seen[g], Sampled(g, k))' = Sum([seen[g] EXCEPT ![level] = @ + 1], Sampled(g, k))
          /\ Sum(passed[g], Sampled(g, k))' = Sum([passed[g] EXCEPT ![level] = @ + 1], Sampled(g, k))
      BY <1>2, <3>1 DEF Sum, At
    <3>4. Deciding(g, k)' = Deciding(g, k) /\ Passing(g, k)' = Passing(g, k)
      BY <1>1, <3>1 DEF Deciding, Passing
    <3>5. Share(sampler[g][k], counters[g][k])' = Share(sampler[g][k], counters[g][k])
            /\ counters'[g][k] = counters[g][k]
      BY <1>1 DEF Share
    <3>. QED
      BY <3>2, <3>3, <3>4, <3>5 DEF SamplingInv, CountInv, ShareInv
  <2>. QED
    BY <1>1, <2>1, <2>2 DEF CountInv, AlwaysAllowed, RuleKey
<1>5. \A h \in Makers : AskedInv(h)' /\ RulesInv(h)'
  BY <1>1 DEF SamplingInv, AskedInv, RulesInv
<1>6. \A x \in Callers : CallInv(x)'
  BY <1>1 DEF SamplingInv, CallInv
<1>. QED
  BY <1>3, <1>4, <1>5, <1>6 DEF SamplingInv

\* A call that moves the counter of its rule, and one that decides: the rule's
\* own share, then the other rules'.
LEMMA CountRuleSampling ==
    ASSUME TypeOK, SamplingInv, NEW t \in Callers, NEW g \in Makers, NEW level \in CallLevels,
           Count(t, g, level), ~AlwaysAllowed(sampler[g], level)
    PROVE  SamplingInv'
<1>1. PICK k : k = RuleKey(sampler[g], level)
  OBVIOUS
<1>2. /\ call[t] = Idle /\ sampler[g] # << >>
      /\ counters' = [counters EXCEPT ![g][k] = @ + 1]
      /\ call' = [call EXCEPT ![t] = [logger |-> g, level |-> level, count |-> counters[g][k] + 1]]
      /\ UNCHANGED <<seen, passed, sampler, pc, cfg, rulesOf, ruleMaps, asked>>
  BY <1>1 DEF Count, makerVars, setupVars
<1>3. /\ k \in DOMAIN sampler[g] /\ sampler[g][k].enabled = TRUE
      /\ level \in Sampled(g, k) /\ \A j : j # k => level \notin Sampled(g, j)
      /\ sampler[g][k].initial \in Nat /\ sampler[g][k].thereafter \in Nat
  BY <1>1, <1>2, SampledLevel, SamplerFacts
<1>4. PICK n \in Nat : n = counters[g][k]
  BY <1>3 DEF TypeOK, SamplingTypes
<1>5. /\ counters'[g][k] = n + 1
      /\ \A j \in DOMAIN sampler[g] : j # k => counters'[g][j] = counters[g][j]
      /\ \A h \in Makers \ {g} : counters'[h] = counters[h]
      /\ call'[t] = [logger |-> g, level |-> level, count |-> n + 1]
      /\ \A x \in Callers \ {t} : call'[x] = call[x]
  BY <1>2, <1>3, <1>4 DEF TypeOK, SamplingTypes
<1>6. call[t].logger \notin Makers
  BY <1>2, Bounds DEF Idle
<1>7. \A h \in Makers \ {g} : CountInv(h)'
  <2>. TAKE h \in Makers \ {g}
  <2>1. \A x \in Callers : call[x].logger = h \/ call'[x].logger = h => call'[x] = call[x]
    BY <1>5, <1>6
  <2>. QED
    BY <1>2, <1>5, <2>1, CountsKept DEF SamplingInv
<1>8. \A j : Sampled(g, j)' = Sampled(g, j)
  BY <1>2 DEF Sampled
<1>9. \A j : /\ Sum(seen[g], Sampled(g, j))' = Sum(seen[g], Sampled(g, j))
             /\ Sum(passed[g], Sampled(g, j))' = Sum(passed[g], Sampled(g, j))
  BY <1>2, <1>8 DEF Sum, At
<1>10. ShareInv(g, k)'
  <2>1. t \notin Deciding(g, k) /\ t \notin Passing(g, k)
    BY <1>6 DEF Deciding, Passing
  <2>2. Deciding(g, k)' = Deciding(g, k) \cup {t}
    BY <1>3, <1>5, <1>8 DEF Deciding
  <2>3. Passing(g, k)' = IF Allowed(sampler[g][k], n + 1) THEN Passing(g, k) \cup {t} ELSE Passing(g, k)
    BY <1>2, <1>5, <2>1, <2>2 DEF Passing, Deciding
  <2>4. PICK d \in Nat, p \in Nat : d = Cardinality(Deciding(g, k)) /\ p = Cardinality(Passing(g, k))
    BY CallersAreFinite
  <2>5. Cardinality(Deciding(g, k))' = d + 1
    BY <2>1, <2>2, <2>4, CallersAreFinite, FS_AddElement
  <2>6. Cardinality(Passing(g, k))' = p + (IF Allowed(sampler[g][k], n + 1) THEN 1 ELSE 0)
    <3>1. Cardinality(Passing(g, k) \cup {t}) = p + 1
      BY <2>1, <2>4, CallersAreFinite, FS_AddElement
    <3>2. CASE Allowed(sampler[g][k], n + 1)
      BY <2>3, <3>1, <3>2
    <3>3. CASE ~Allowed(sampler[g][k], n + 1)
      BY <2>3, <2>4, <3>3
    <3>. QED
      BY <3>2, <3>3
  <2>7. PICK a \in Nat, b \in Nat : a = Sum(seen[g], Sampled(g, k)) /\ b = Sum(passed[g], Sampled(g, k))
    BY SumType, CallersAreFinite DEF TypeOK, SamplingTypes
  <2>8. n = a + d /\ Share(sampler[g][k], n) = b + p
    BY <1>3, <1>4, <2>4, <2>7 DEF SamplingInv, CountInv, ShareInv
  <2>9. Share(sampler[g][k], n + 1) = b + p + (IF Allowed(sampler[g][k], n + 1) THEN 1 ELSE 0)
    BY <1>3, <2>8, ShareStep
  <2>10. Share(sampler[g][k], counters[g][k])' = Share(sampler[g][k], n + 1)
    BY <1>2, <1>5 DEF Share
  <2>11. counters'[g][k] = Sum(seen[g], Sampled(g, k))' + Cardinality(Deciding(g, k))'
    BY <1>5, <1>9, <2>5, <2>7, <2>8
  <2>12. Share(sampler[g][k], counters[g][k])' = Sum(passed[g], Sampled(g, k))' + Cardinality(Passing(g, k))'
    BY <1>9, <2>6, <2>7, <2>9, <2>10
  <2>. QED
    BY <2>11, <2>12 DEF ShareInv
<1>11. ASSUME NEW j \in DOMAIN sampler[g] \ {k} PROVE ShareInv(g, j)'
  <2>1. Deciding(g, j)' = Deciding(g, j) /\ t \notin Deciding(g, j)
    BY <1>3, <1>5, <1>6, <1>8 DEF Deciding
  <2>2. Passing(g, j)' = Passing(g, j)
    BY <1>2, <1>5, <2>1 DEF Passing, Deciding
  <2>3. counters'[g][j] = counters[g][j]
          /\ Share(sampler[g][j], counters[g][j])' = Share(sampler[g][j], counters[g][j])
    BY <1>2, <1>5 DEF Share
  <2>. QED
    BY <1>9, <2>1, <2>2, <2>3 DEF SamplingInv, CountInv, ShareInv
<1>12. CountInv(g)'
  BY <1>2, <1>10, <1>11 DEF SamplingInv, CountInv, AlwaysAllowed, RuleKey
<1>13. \A h \in Makers : AskedInv(h)' /\ RulesInv(h)'
  BY <1>2 DEF SamplingInv, AskedInv, RulesInv
<1>14. \A x \in Callers : CallInv(x)'
  <2>1. CallInv(t)'
    BY <1>2, <1>5 DEF CallInv, AlwaysAllowed, RuleKey
  <2>2. \A x \in Callers \ {t} : CallInv(x)'
    BY <1>2, <1>5 DEF SamplingInv, CallInv
  <2>. QED
    BY <2>1, <2>2
<1>. QED
  BY <1>7, <1>12, <1>13, <1>14 DEF SamplingInv

LEMMA DecideSampling ==
    ASSUME TypeOK, SamplingInv, NEW t \in Callers, Decide(t)
    PROVE  SamplingInv'
<1>1. PICK g \in Makers, l \in CallLevels, n \in Nat :
        call[t] = [logger |-> g, level |-> l, count |-> n]
  BY DEF Decide, TypeOK, SamplingTypes
<1>2. PICK k : k = RuleKey(sampler[g], l)
  OBVIOUS
<1>3. /\ seen' = [seen EXCEPT ![g][l] = @ + 1]
      /\ passed' = IF Allowed(sampler[g][k], n) THEN [passed EXCEPT ![g][l] = @ + 1] ELSE passed
      /\ call' = [call EXCEPT ![t] = Idle]
      /\ UNCHANGED <<sampler, counters, pc, cfg, rulesOf, ruleMaps, asked>>
  BY <1>1, <1>2 DEF Decide, Verdict, makerVars, setupVars
<1>4. /\ sampler[g] # << >> /\ ~AlwaysAllowed(sampler[g], l) /\ call[t] # Idle
  BY <1>1 DEF SamplingInv, CallInv, Decide
<1>5. /\ k \in DOMAIN sampler[g]
      /\ l \in Sampled(g, k) /\ \A j : j # k => l \notin Sampled(g, j)
  BY <1>2, <1>4, SampledLevel
<1>6. /\ seen[g] \in Counts /\ passed[g] \in Counts
      /\ seen'[g] = [seen[g] EXCEPT ![l] = @ + 1]
      /\ passed'[g] = IF Allowed(sampler[g][k], n) THEN [passed[g] EXCEPT ![l] = @ + 1] ELSE passed[g]
      /\ \A h \in Makers \ {g} : seen'[h] = seen[h] /\ passed'[h] = passed[h]
      /\ call'[t] = Idle /\ \A x \in Callers \ {t} : call'[x] = call[x]
  BY <1>3 DEF TypeOK, SamplingTypes
<1>7. Idle.logger \notin Makers
  BY Bounds DEF Idle
<1>8. \A h \in Makers \ {g} : CountInv(h)'
  <2>. TAKE h \in Makers \ {g}
  <2>1. \A x \in Callers : call[x].logger = h \/ call'[x].logger = h => call'[x] = call[x]
    BY <1>1, <1>6, <1>7
  <2>. QED
    BY <1>3, <1>6, <2>1, CountsKept DEF SamplingInv
<1>9. \A j : Sampled(g, j)' = Sampled(g, j)
  BY <1>3 DEF Sampled
<1>10. ShareInv(g, k)'
  <2>1. t \in Deciding(g, k) /\ (t \in Passing(g, k) <=> Allowed(sampler[g][k], n))
    BY <1>1, <1>5 DEF Deciding, Passing
  <2>2. Deciding(g, k)' = Deciding(g, k) \ {t}
    BY <1>6, <1>7, <1>9 DEF Deciding
  <2>3. Passing(g, k)' = Passing(g, k) \ {t}
    BY <1>3, <1>6, <2>2 DEF Passing, Deciding
  <2>4. PICK d \in Nat, p \in Nat : d = Cardinality(Deciding(g, k)) /\ p = Cardinality(Passing(g, k))
    BY CallersAreFinite
  <2>5. Cardinality(Deciding(g, k))' = d - 1
    BY <2>1, <2>2, <2>4, CallersAreFinite, FS_RemoveElement
  <2>6. Cardinality(Passing(g, k))' = p - (IF Allowed(sampler[g][k], n) THEN 1 ELSE 0)
    <3>1. CASE Allowed(sampler[g][k], n)
      <4>1. Cardinality(Passing(g, k) \ {t}) = p - 1
        BY <2>1, <2>4, <3>1, CallersAreFinite, FS_RemoveElement
      <4>. QED
        BY <2>3, <3>1, <4>1
    <3>2. CASE ~Allowed(sampler[g][k], n)
      <4>1. Passing(g, k) \ {t} = Passing(g, k)
        BY <2>1, <3>2
      <4>. QED
        BY <2>3, <2>4, <3>2, <4>1
    <3>. QED
      BY <3>1, <3>2
  <2>7. PICK a \in Nat, b \in Nat : a = Sum(seen[g], Sampled(g, k)) /\ b = Sum(passed[g], Sampled(g, k))
    BY <1>6, SumType, CallersAreFinite
  <2>8. Sum(seen[g], Sampled(g, k))' = a + 1
    <3>1. Sum(seen[g], Sampled(g, k))' = Sum([seen[g] EXCEPT ![l] = @ + 1], Sampled(g, k))
      BY <1>6, <1>9 DEF Sum, At
    <3>. QED
      BY <1>5, <1>6, <2>7, <3>1, SumMore, CallersAreFinite
  <2>9. Sum(passed[g], Sampled(g, k))' = b + (IF Allowed(sampler[g][k], n) THEN 1 ELSE 0)
    <3>1. CASE Allowed(sampler[g][k], n)
      <4>1. Sum(passed[g], Sampled(g, k))' = Sum([passed[g] EXCEPT ![l] = @ + 1], Sampled(g, k))
        BY <1>6, <1>9, <3>1 DEF Sum, At
      <4>. QED
        BY <1>5, <1>6, <2>7, <3>1, <4>1, SumMore, CallersAreFinite
    <3>2. CASE ~Allowed(sampler[g][k], n)
      <4>1. Sum(passed[g], Sampled(g, k))' = Sum(passed[g], Sampled(g, k))
        BY <1>6, <1>9, <3>2 DEF Sum, At
      <4>. QED
        BY <2>7, <3>2, <4>1
    <3>. QED
      BY <3>1, <3>2
  <2>10. counters[g][k] = a + d /\ Share(sampler[g][k], counters[g][k]) = b + p
    BY <1>5, <2>4, <2>7 DEF SamplingInv, CountInv, ShareInv
  <2>11. counters'[g][k] = counters[g][k]
           /\ Share(sampler[g][k], counters[g][k])' = Share(sampler[g][k], counters[g][k])
    BY <1>3 DEF Share
  <2>12. counters'[g][k] = Sum(seen[g], Sampled(g, k))' + Cardinality(Deciding(g, k))'
    BY <2>5, <2>8, <2>10, <2>11
  <2>13. Share(sampler[g][k], counters[g][k])' = Sum(passed[g], Sampled(g, k))' + Cardinality(Passing(g, k))'
    BY <2>6, <2>9, <2>10, <2>11
  <2>. QED
    BY <2>12, <2>13 DEF ShareInv
<1>11. ASSUME NEW j \in DOMAIN sampler[g] \ {k} PROVE ShareInv(g, j)'
  <2>1. t \notin Deciding(g, j) /\ l \notin Sampled(g, j) /\ Sampled(g, j) \in SUBSET CallLevels
    <3>1. l \notin Sampled(g, j) /\ Sampled(g, j) \in SUBSET CallLevels
      BY <1>5, CallersAreFinite
    <3>2. t \notin Deciding(g, j)
      BY <1>1, <3>1 DEF Deciding
    <3>. QED
      BY <3>1, <3>2
  <2>2. Deciding(g, j)' = Deciding(g, j)
    BY <1>6, <1>7, <1>9, <2>1 DEF Deciding
  <2>3. Passing(g, j)' = Passing(g, j)
    BY <1>3, <1>6, <2>1, <2>2 DEF Passing, Deciding
  <2>4. Sum(seen[g], Sampled(g, j))' = Sum(seen[g], Sampled(g, j))
    <3>1. Sum(seen[g], Sampled(g, j))' = Sum([seen[g] EXCEPT ![l] = @ + 1], Sampled(g, j))
      BY <1>6, <1>9 DEF Sum, At
    <3>. QED
      BY <1>6, <2>1, <3>1, SumSame
  <2>5. Sum(passed[g], Sampled(g, j))' = Sum(passed[g], Sampled(g, j))
    <3>1. \/ Sum(passed[g], Sampled(g, j))' = Sum([passed[g] EXCEPT ![l] = @ + 1], Sampled(g, j))
          \/ Sum(passed[g], Sampled(g, j))' = Sum(passed[g], Sampled(g, j))
      BY <1>6, <1>9 DEF Sum, At
    <3>. QED
      BY <1>6, <2>1, <3>1, SumSame
  <2>6. counters'[g][j] = counters[g][j]
          /\ Share(sampler[g][j], counters[g][j])' = Share(sampler[g][j], counters[g][j])
    BY <1>3 DEF Share
  <2>. QED
    BY <2>2, <2>3, <2>4, <2>5, <2>6 DEF SamplingInv, CountInv, ShareInv
<1>12. CountInv(g)'
  <2>1. ASSUME NEW i \in CallLevels, AlwaysAllowed(sampler[g], i) PROVE passed'[g][i] = seen'[g][i]
    <3>1. i # l /\ passed[g][i] = seen[g][i]
      BY <1>4, <2>1 DEF SamplingInv, CountInv
    <3>. QED
      BY <1>6, <3>1 DEF Counts
  <2>2. \A i \in CallLevels : AlwaysAllowed(sampler[g], i)' <=> AlwaysAllowed(sampler[g], i)
    BY <1>3 DEF AlwaysAllowed, RuleKey
  <2>. QED
    BY <1>3, <1>4, <1>10, <1>11, <2>1, <2>2 DEF CountInv
<1>13. \A h \in Makers : AskedInv(h)' /\ RulesInv(h)'
  BY <1>3 DEF SamplingInv, AskedInv, RulesInv
<1>14. \A x \in Callers : CallInv(x)'
  BY <1>3, <1>6 DEF SamplingInv, CallInv
<1>. QED
  BY <1>8, <1>12, <1>13, <1>14 DEF SamplingInv

-----------------------------------------------------------------------------
(* The invariants together. *)

SetupInv == TypeOK /\ MakersInv /\ SamplingInv

LEMMA InitInv == Init => SetupInv
<1>. SUFFICES ASSUME Init PROVE SetupInv
  OBVIOUS
<1>1. MakersInv
  BY DEF Init, MakersInv, MakerInv, LoadedInv, AcceptedInv, LookInv, EncoderInv, RefusedInv
<1>2. \A g \in Makers : AskedInv(g) /\ RulesInv(g)
  BY DEF Init, AskedInv, RulesInv
<1>3. \A g \in Makers : CountInv(g)
  BY DEF Init, CountInv
<1>4. \A t \in Callers : CallInv(t)
  BY DEF Init, CallInv
<1>. QED
  BY <1>1, <1>2, <1>3, <1>4, InitTypes DEF SetupInv, SamplingInv

LEMMA LogInv ==
    ASSUME SetupInv, NEW t \in Callers, Log(t)
    PROVE  SetupInv'
<1>1. CASE Decide(t)
  <2>1. UNCHANGED <<makerVars, setupVars, faults>>
    BY <1>1 DEF Decide, Verdict
  <2>2. MakersInv'
    BY <2>1, MakersKept DEF SetupInv, setupVars
  <2>. QED
    BY <1>1, <2>2, DecideTypes, DecideSampling DEF SetupInv
<1>2. ASSUME NEW g \in Makers, NEW level \in CallLevels, Count(t, g, level)
      PROVE  SetupInv'
  <2>1. UNCHANGED <<makerVars, setupVars, faults>> /\ sampler[g] # << >>
    BY <1>2 DEF Count
  <2>2. MakersInv'
    BY <2>1, MakersKept DEF SetupInv, setupVars
  <2>3. DefaultRule \in DOMAIN sampler[g]
    BY <2>1, SamplerFacts DEF SetupInv
  <2>4. TypeOK'
    BY <1>2, <2>3, CountTypes DEF SetupInv
  <2>5. SamplingInv'
    BY <1>2, CountFreeSampling, CountRuleSampling DEF SetupInv
  <2>. QED
    BY <2>2, <2>4, <2>5 DEF SetupInv
<1>. QED
  BY <1>1, <1>2 DEF Log

LEMMA MakeInv ==
    ASSUME SetupInv, NEW g \in Makers, Make(g)
    PROVE  SetupInv'
<1>1. CASE Build(g) \/ TakePreset(g) \/ Load(g)
  BY <1>1, ConfigurationTypes, ConfigurationMakers, ConfiguringSampling DEF SetupInv
<1>2. CASE NewAdapter(g)
  BY <1>2, NewAdapterTypes, NewAdapterMakers, NewAdapterSampling DEF SetupInv
<1>3. CASE ResolveAlone(g)
  BY <1>3, EncoderTypes, ResolveAloneMakers, EncoderSampling DEF SetupInv
<1>4. CASE ResolveShared(g)
  BY <1>4, EncoderTypes, ResolveSharedMakers, EncoderSampling DEF SetupInv
<1>5. CASE EnsureEncoderRegistry(g)
  <2>1. MakersInv'
    BY <1>5, LookUpMakers, RegisterDefaultMakers DEF EnsureEncoderRegistry, SetupInv
  <2>. QED
    BY <1>5, <2>1, EncoderTypes, EncoderSampling DEF SetupInv
<1>6. CASE Finish(g)
  BY <1>6, FinishTypes, FinishMakers, FinishSampling DEF SetupInv
<1>. QED
  BY <1>1, <1>2, <1>3, <1>4, <1>5, <1>6 DEF Make

LEMMA StepInv == SetupInv /\ [Next]_vars => SetupInv'
<1>. SUFFICES ASSUME SetupInv, [Next]_vars PROVE SetupInv'
  OBVIOUS
<1>1. CASE UseBuilder
  BY <1>1, UseBuilderTypes, UseBuilderMakers, ConfiguringSampling DEF SetupInv
<1>2. CASE \E name \in {"json", "short"} : RegisterEncoder(name)
  BY <1>2, RegisterEncoderTypes, RegisterEncoderMakers, RegisterEncoderSampling DEF SetupInv
<1>3. CASE \E g \in Makers : Make(g)
  BY <1>3, MakeInv
<1>4. CASE \E t \in Callers : Log(t)
  BY <1>4, LogInv
<1>5. CASE UNCHANGED vars
  <2>1. UNCHANGED <<setupVars, makerVars, samplingVars, faults>>
    BY <1>5 DEF vars
  <2>2. TypeOK'
    BY <2>1, KeptTypes DEF SetupInv, TypeOK
  <2>3. MakersInv'
    BY <2>1, MakersKept DEF SetupInv, setupVars
  <2>4. SamplingInv'
    BY <2>1, AskedKept, SamplingKept DEF SetupInv, setupVars, makerVars
  <2>. QED
    BY <2>2, <2>3, <2>4 DEF SetupInv
<1>. QED
  BY <1>1, <1>2, <1>3, <1>4, <1>5 DEF Next

LEMMA Invariant == Spec => []SetupInv
BY InitInv, StepInv, PTL DEF Spec

-----------------------------------------------------------------------------
(* What they promise. *)

\* Every setting, rule and counter has the type the code gives it, whatever the
\* documents, the presets and the calls of the builder are.
THEOREM TypeCorrect == Spec => []TypeOK
BY Invariant, PTL DEF SetupInv

LEMMA LoadedIsGood ==
    ASSUME NEW source \in Documents, Refusal(Raw(source.env, source.file)) = NoError
    PROVE  LET c == ApplyRaw(Raw(source.env, source.file)) IN
           /\ c \in Configs /\ Len(c.sinks) = 1
           /\ c.strategy \in {"drop_newest", "drop_oldest", "block", "handoff"}
<1>. DEFINE raw == Raw(source.env, source.file)
<1>1. Setting(raw, <<"async", "overflow_strategy">>, "block") \in DOMAIN ParseOverflowStrategy
  BY Accepted
<1>2. Setting(raw, <<"async", "overflow_strategy">>, "drop_newest") \in DOMAIN ParseOverflowStrategy
  BY <1>1 DEF Setting, ParseOverflowStrategy
<1>3. ApplyRaw(raw).strategy \in {"drop_newest", "drop_oldest", "block", "handoff"}
  BY <1>2 DEF ApplyRaw, ParseOverflowStrategy
<1>4. Len(ApplyRaw(raw).sinks) = 1
  BY DEF ApplyRaw
<1>. QED
  BY <1>3, <1>4, RawDecodes, ApplyRawType

LEMMA EnvFromInv == SetupInv => EnvOverridesFile
<1>. SUFFICES ASSUME SetupInv, NEW g \in Makers, document[g] # Nothing, pc[g] \notin {"idle", "failed"}
              PROVE  LET env == document[g].env
                         alone == ApplyRaw(Raw(env, << >>))
                     IN /\ \A field \in DOMAIN KeyOf :
                             /\ KeyOf[field] \in DOMAIN env
                             /\ pc[g] = "configured" \/ ~Adjusted(field, alone)
                             => cfg[g][field] = alone[field]
                        /\ <<"output">> \in DOMAIN env => cfg[g].sinks[1] = alone.sinks[1]
                        /\ \A part \in DOMAIN SamplingKeyOf :
                             SamplingKeyOf[part] \in DOMAIN env =>
                                 cfg[g].sampling[part] = alone.sampling[part]
                        /\ RuleOverrides(env, document[g].file, ruleMaps[g], alone)
  BY DEF EnvOverridesFile
<1>1. PICK source \in Documents : source = document[g]
  BY DEF SetupInv, TypeOK, MakerTypes
<1>. DEFINE env == source.env
            loaded == ApplyRaw(Raw(env, source.file))
            alone == ApplyRaw(Raw(env, << >>))
<1>2. /\ Refusal(Raw(env, source.file)) = NoError
      /\ cfg[g] = IF pc[g] = "configured" THEN loaded ELSE Validated(PreparedOutput(loaded))
      /\ ruleMaps[g] = LoadedRules(Raw(env, source.file))
  BY <1>1 DEF SetupInv, MakersInv, MakerInv, LoadedInv
<1>3. /\ loaded \in Configs /\ Len(loaded.sinks) = 1
      /\ loaded.strategy \in {"drop_newest", "drop_oldest", "block", "handoff"}
  BY <1>2, LoadedIsGood
<1>4. /\ \A field \in DOMAIN KeyOf : KeyOf[field] \in DOMAIN env => loaded[field] = alone[field]
      /\ <<"output">> \in DOMAIN env => loaded.sinks = alone.sinks
      /\ \A part \in DOMAIN SamplingKeyOf :
            SamplingKeyOf[part] \in DOMAIN env => loaded.sampling[part] = alone.sampling[part]
  BY EnvFields
<1>5. RuleOverrides(env, source.file, ruleMaps[g], alone)
  BY <1>2, EnvRules
<1>. HIDE DEF loaded, alone, env
<1>6. /\ cfg[g].sampling = loaded.sampling /\ cfg[g].sinks[1] = loaded.sinks[1]
      /\ \A field \in DOMAIN KeyOf :
            pc[g] = "configured" \/ ~Adjusted(field, loaded) => cfg[g][field] = loaded[field]
  BY <1>2, <1>3, PreparedType, AdjustedOnly
<1>7. ASSUME NEW field \in DOMAIN KeyOf, KeyOf[field] \in DOMAIN env,
             pc[g] = "configured" \/ ~Adjusted(field, alone)
      PROVE  cfg[g][field] = alone[field]
  <2>1. Adjusted(field, loaded) <=> Adjusted(field, alone)
    <3>1. loaded[field] = alone[field]
      BY <1>4, <1>7
    <3>. QED
      BY <3>1 DEF Adjusted
  <2>. QED
    BY <1>4, <1>6, <1>7, <2>1
<1>. QED
  BY <1>1, <1>4, <1>5, <1>6, <1>7 DEF alone, env

\* Every setting and every part of a sampling rule that the environment names is,
\* in what FromFile loads and in the logger made from it, the one FromEnv gives,
\* whatever the file says, for every document.
THEOREM EnvironmentWins == Spec => []EnvOverridesFile
BY Invariant, EnvFromInv, PTL

LEMMA EncoderFromInv == SetupInv => EncoderMatches
BY DEF SetupInv, MakersInv, MakerInv, EncoderInv, EncoderMatches

\* Every logger encodes with the encoder its configuration asked for, however
\* many makers and registrations share the registry.
THEOREM EncodersAreAsAsked == Spec => []EncoderMatches
BY Invariant, EncoderFromInv, PTL

LEMMA ReadyFromInv == SetupInv => ReadyOrRefused
<1>. SUFFICES ASSUME SetupInv, NEW g \in Makers
              PROVE  /\ pc[g] = "ready" => CanLog(g)
                     /\ pc[g] = "failed" => RefusedForCause(g)
  BY DEF ReadyOrRefused
<1>1. pc[g] = "failed" => RefusedForCause(g)
  BY DEF SetupInv, MakersInv, MakerInv, RefusedInv
<1>2. ASSUME pc[g] = "ready" PROVE CanLog(g)
  <2>1. /\ cfg[g].level \in AllLevels /\ cfg[g].sinks # << >> /\ encoder[g] # Unset
        /\ cfg[g].strategy \in {"drop_newest", "drop_oldest", "block", "handoff"}
    BY <1>2 DEF SetupInv, MakersInv, MakerInv, AcceptedInv, EncoderInv
  <2>2. /\ asked[g].sampling \in SamplingSettings /\ IsRules(asked[g].rules, AllLevels)
        /\ sampler[g] = NewLogSampler(asked[g].sampling, asked[g].rules)
    BY <1>2 DEF SetupInv, TypeOK, MakerTypes, SamplingInv, RulesInv
  <2>3. /\ sampler[g] # << >> <=> asked[g].sampling.enabled
        /\ \A k \in DOMAIN sampler[g] :
              sampler[g][k].enabled => sampler[g][k].initial > 0 /\ sampler[g][k].thereafter > 0
    BY <2>2, SamplerRules
  <2>. QED
    BY <2>1, <2>3 DEF CanLog
<1>. QED
  BY <1>1, <1>2

\* NewAdapter ends with a logger that can log, or refuses for a cause: above all
\* whatever the loader accepts, NewAdapter accepts.
THEOREM LoggersCanLog == Spec => []ReadyOrRefused
BY Invariant, ReadyFromInv, PTL

LEMMA FirstOfThree ==
    ASSUME NEW a \in Int, NEW b \in Int, NEW c \in Nat \ {0}
    PROVE  FirstPositive(<<a, b, c>>) = NormalizeThreshold(a, NormalizeThreshold(b, c))
<1>. DEFINE values == <<a, b, c>>
            Is(i) == values[i] > 0 /\ \A j \in 1 .. i - 1 : values[j] <= 0
            chosen == CHOOSE i \in DOMAIN values : Is(i)
<1>1. DOMAIN values = 1 .. 3 /\ values[1] = a /\ values[2] = b /\ values[3] = c
  OBVIOUS
<1>2. \E i \in DOMAIN values : Is(i)
  <2>. HIDE DEF values
  <2>1. CASE a > 0
    <3>1. 1 \in DOMAIN values /\ Is(1)
      BY <1>1, <2>1
    <3>. QED
      BY <3>1
  <2>2. CASE a <= 0 /\ b > 0
    <3>1. 2 \in DOMAIN values /\ Is(2)
      BY <1>1, <2>2
    <3>. QED
      BY <3>1
  <2>3. CASE a <= 0 /\ b <= 0
    <3>1. 3 \in DOMAIN values /\ Is(3)
      BY <1>1, <2>3
    <3>. QED
      BY <3>1
  <2>. QED
    BY <2>1, <2>2, <2>3
<1>3. chosen \in DOMAIN values /\ Is(chosen)
  BY <1>2
<1>4. FirstPositive(<<a, b, c>>) = values[chosen]
  BY DEF FirstPositive
<1>. HIDE DEF chosen, values
<1>5. values[chosen] = NormalizeThreshold(a, NormalizeThreshold(b, c))
  <2>1. chosen = 1 \/ chosen = 2 \/ chosen = 3
    BY <1>1, <1>3
  <2>2. CASE chosen = 1
    BY <1>1, <1>3, <2>2 DEF NormalizeThreshold
  <2>3. CASE chosen = 2
    BY <1>1, <1>3, <2>3 DEF NormalizeThreshold
  <2>4. CASE chosen = 3
    BY <1>1, <1>3, <2>4 DEF NormalizeThreshold
  <2>. QED
    BY <2>1, <2>2, <2>3, <2>4
<1>. QED
  BY <1>4, <1>5

LEMMA SumOfOne ==
    ASSUME NEW counts \in Counts, NEW l \in CallLevels
    PROVE  Sum(counts, {l}) = counts[l]
<1>1. l \in 0 .. 5 /\ counts[l] \in Nat
  BY SetupAssumption DEF AllLevels, Counts
<1>2. \A i \in 0 .. 5 : At(counts, {l}, i) = IF i = l THEN counts[l] ELSE 0
  BY DEF At
<1>. QED
  BY <1>1, <1>2 DEF Sum

\* Counts of which none passes a rule.
LEMMA SumEqual ==
    ASSUME NEW more, NEW less, NEW levels, \A l \in levels : more[l] = less[l]
    PROVE  Sum(more, levels) = Sum(less, levels)
BY DEF Sum, At

LEMMA ShareOff ==
    ASSUME NEW rule, ~rule.enabled, NEW n
    PROVE  Share(rule, n) = n
BY DEF Share

LEMMA ShareEqual ==
    ASSUME NEW r, NEW s, r.enabled = s.enabled, r.initial = s.initial, r.thereafter = s.thereafter, NEW n
    PROVE  Share(r, n) = Share(s, n)
BY DEF Share

\* The rule of a sampled level is the one that was asked for, and the levels
\* that share its counter are the ones that should.
LEMMA RuleAsAsked ==
    ASSUME TypeOK, SamplingInv, NEW g \in Makers, sampler[g] # << >>, NEW l \in CallLevels,
           ~AlwaysAllowed(sampler[g], l)
    PROVE  LET k == RuleKey(sampler[g], l)
               rule == sampler[g][k]
           IN /\ rule.enabled = AskedRule(g, l).enabled
              /\ rule.initial = AskedRule(g, l).initial
              /\ rule.thereafter = AskedRule(g, l).thereafter
              /\ Sampled(g, k) = Together(g, l)
<1>. DEFINE s == sampler[g]
            c == asked[g].sampling
            rules == asked[g].rules
            base == BuildDefaultSamplingRule(c)
            k == RuleKey(s, l)
<1>1. s = NewLogSampler(c, rules) /\ c \in SamplingSettings /\ IsRules(rules, AllLevels)
  BY SamplerFacts DEF SamplingInv, RulesInv, TypeOK, MakerTypes
<1>2. c.enabled
  BY <1>1, SamplerRules
<1>3. /\ DefaultRule \in DOMAIN s /\ s[DefaultRule] = base
      /\ \A i \in AllLevels :
            /\ i \in DOMAIN s <=> i \in DOMAIN rules \/ c.perLevel
            /\ i \in DOMAIN rules => s[i] = BuildLevelRule(rules[i], base)
            /\ i \notin DOMAIN rules /\ c.perLevel => s[i] = base
  BY <1>1, <1>2, SamplerRules
<1>4. base.enabled = TRUE
        /\ base.initial = NormalizeThreshold(c.initial, DefaultSamplingInitial)
        /\ base.thereafter = NormalizeThreshold(c.thereafter, DefaultSamplingThereafter)
  BY DEF BuildDefaultSamplingRule, Rule
<1>5. l < WarnLevel /\ s[k].enabled /\ l \in AllLevels /\ DefaultRule \notin AllLevels
  BY SetupAssumption DEF AlwaysAllowed, WarnLevel, AllLevels, DefaultRule
<1>6. /\ c.enabled = TRUE /\ c.initial \in Int /\ c.thereafter \in Int
      /\ DefaultSamplingInitial \in Nat \ {0} /\ DefaultSamplingThereafter \in Nat \ {0}
  BY <1>1, <1>2, SamplingDefaultsAssumption DEF SamplingSettings
<1>. HIDE DEF s, c, rules, base
<1>7. CASE l \in DOMAIN rules
  <2>1. k = l /\ s[k] = BuildLevelRule(rules[l], base)
    BY <1>3, <1>5, <1>7 DEF RuleKey
  <2>2. rules[l] \in Thresholds
    BY <1>1, <1>7 DEF IsRules
  <2>3. rules[l].enabled = TRUE /\ rules[l].initial \in Int /\ rules[l].thereafter \in Int
    BY <1>5, <2>1, <2>2 DEF BuildLevelRule, Disabled, Thresholds
  <2>4. /\ s[k].enabled = TRUE /\ s[k].initial = NormalizeThreshold(rules[l].initial, base.initial)
        /\ s[k].thereafter = NormalizeThreshold(rules[l].thereafter, base.thereafter)
    BY <2>1, <2>3 DEF BuildLevelRule, Rule
  <2>5. /\ AskedRule(g, l).enabled = TRUE
        /\ AskedRule(g, l).initial = FirstPositive(<<rules[l].initial, c.initial, DefaultSamplingInitial>>)
        /\ AskedRule(g, l).thereafter
               = FirstPositive(<<rules[l].thereafter, c.thereafter, DefaultSamplingThereafter>>)
    BY <1>5, <1>6, <1>7, <2>3 DEF AskedRule, c, rules
  <2>6. Together(g, l) = {l}
    BY <1>7 DEF Together, rules
  <2>7. Sampled(g, k) = {l}
    <3>1. \A i \in CallLevels : RuleKey(s, i) = l <=> i = l
      BY <1>3, <1>5, <1>7 DEF RuleKey
    <3>. QED
      BY <2>1, <3>1 DEF Sampled, s
  <2>. QED
    <3>1. AskedRule(g, l).initial = s[k].initial
      BY <1>4, <1>6, <2>3, <2>4, <2>5, FirstOfThree
    <3>2. AskedRule(g, l).thereafter = s[k].thereafter
      BY <1>4, <1>6, <2>3, <2>4, <2>5, FirstOfThree
    <3>3. AskedRule(g, l).enabled = s[k].enabled
      BY <2>4, <2>5
    <3>. HIDE DEF k
    <3>4. Sampled(g, k) = Together(g, l)
      BY <2>6, <2>7
    <3>. QED
      BY <3>1, <3>2, <3>3, <3>4 DEF s, k
<1>8. CASE l \notin DOMAIN rules
  <2>1. /\ AskedRule(g, l).enabled = TRUE
        /\ AskedRule(g, l).initial = FirstPositive(<<0, c.initial, DefaultSamplingInitial>>)
        /\ AskedRule(g, l).thereafter = FirstPositive(<<0, c.thereafter, DefaultSamplingThereafter>>)
    BY <1>5, <1>6, <1>8 DEF AskedRule, c, rules
  <2>2. AskedRule(g, l).initial = base.initial /\ AskedRule(g, l).thereafter = base.thereafter
    <3>1. \A x : NormalizeThreshold(0, x) = x
      BY DEF NormalizeThreshold
    <3>. QED
      BY <1>4, <1>6, <2>1, <3>1, FirstOfThree
  <2>3. s[k] = base
    BY <1>3, <1>5, <1>8 DEF RuleKey
  <2>4. Sampled(g, k) = Together(g, l)
    <3>1. CASE c.perLevel
      <4>1. k = l
        BY <1>3, <1>5, <3>1 DEF RuleKey
      <4>2. \A i \in CallLevels : RuleKey(s, i) = l <=> i = l
        BY <1>3, <1>5, <3>1, SetupAssumption DEF RuleKey
      <4>3. Together(g, l) = {l}
        BY <3>1 DEF Together, c
      <4>. QED
        BY <4>1, <4>2, <4>3 DEF Sampled, s
    <3>2. CASE ~c.perLevel
      <4>1. k = DefaultRule
        BY <1>3, <1>5, <1>8, <3>2 DEF RuleKey
      <4>2. \A i \in CallLevels : RuleKey(s, i) = DefaultRule <=> i \notin DOMAIN rules
        BY <1>3, <1>5, <3>2, SetupAssumption DEF RuleKey
      <4>3. \A i \in CallLevels : i \notin DOMAIN rules => (~AlwaysAllowed(s, i) <=> i < WarnLevel)
        BY <1>3, <1>4, <4>2, SetupAssumption DEF AlwaysAllowed, AllLevels, WarnLevel
      <4>4. Together(g, l) = {i \in CallLevels : i < WarnLevel /\ i \notin DOMAIN rules}
        <5>1. ~(l >= WarnLevel)
          BY <1>5 DEF WarnLevel, AllLevels
        <5>. QED
          BY <1>8, <3>2, <5>1 DEF Together, c, rules
      <4>5. Sampled(g, k) = {i \in CallLevels : ~AlwaysAllowed(s, i) /\ RuleKey(s, i) = DefaultRule}
        BY <4>1 DEF Sampled, s
      <4>. QED
        BY <4>2, <4>3, <4>4, <4>5
    <3>. QED
      BY <3>1, <3>2
  <2>. QED
    BY <1>4, <2>1, <2>2, <2>3, <2>4 DEF s
<1>. QED
  BY <1>7, <1>8

LEMMA ShareFromInv == SetupInv => SamplingShare
<1>. SUFFICES ASSUME SetupInv, \A t \in Callers : call[t] = Idle,
                     NEW g \in Makers, pc[g] = "ready", NEW l \in CallLevels
              PROVE  Sum(passed[g], Together(g, l))
                         = Share(AskedRule(g, l), Sum(seen[g], Together(g, l)))
  BY DEF SamplingShare
<1>1. TypeOK /\ SamplingInv /\ seen[g] \in Counts /\ passed[g] \in Counts
  BY DEF SetupInv, TypeOK, SamplingTypes
<1>2. Together(g, l) \in SUBSET CallLevels
  BY DEF Together
<1>3. /\ asked[g].sampling \in SamplingSettings /\ IsRules(asked[g].rules, AllLevels)
      /\ sampler[g] = NewLogSampler(asked[g].sampling, asked[g].rules)
  BY <1>1 DEF TypeOK, MakerTypes, SamplingInv, RulesInv
<1>4. CASE sampler[g] = << >>
  <2>1. ~asked[g].sampling.enabled
    BY <1>3, <1>4, SamplerRules
  <2>2. ~AskedRule(g, l).enabled
    BY <2>1 DEF AskedRule
  <2>3. \A i \in Together(g, l) : passed[g][i] = seen[g][i]
    BY <1>1, <1>2, <1>4 DEF SamplingInv, CountInv
  <2>. QED
    BY <2>2, <2>3, SumEqual, ShareOff
<1>5. CASE sampler[g] # << >> /\ AlwaysAllowed(sampler[g], l)
  <2>1. passed[g][l] = seen[g][l]
    BY <1>1, <1>5 DEF SamplingInv, CountInv
  <2>2. Together(g, l) = {l} /\ ~AskedRule(g, l).enabled
    <3>1. CASE l >= WarnLevel
      <4>1. ~(l < WarnLevel)
        BY <3>1, SetupAssumption DEF WarnLevel, AllLevels
      <4>. QED
        BY <3>1, <4>1 DEF Together, AskedRule
    <3>2. CASE ~sampler[g][RuleKey(sampler[g], l)].enabled
      <4>. DEFINE c == asked[g].sampling
                  base == BuildDefaultSamplingRule(c)
                  rules == asked[g].rules
      <4>1. c.enabled
        BY <1>3, <1>5, SamplerRules
      <4>2. base.enabled = TRUE
        BY DEF BuildDefaultSamplingRule, Rule
      <4>3. l \in AllLevels
        BY SetupAssumption
      <4>4. /\ sampler[g][DefaultRule] = base
            /\ l \in DOMAIN sampler[g] <=> l \in DOMAIN rules \/ c.perLevel
            /\ l \in DOMAIN rules => sampler[g][l] = BuildLevelRule(rules[l], base)
            /\ l \notin DOMAIN rules /\ c.perLevel => sampler[g][l] = base
        BY <1>3, <4>1, <4>3, SamplerRules
      <4>. HIDE DEF base
      <4>5. l \in DOMAIN rules /\ sampler[g][l] = BuildLevelRule(rules[l], base)
                /\ ~BuildLevelRule(rules[l], base).enabled
        BY <3>2, <4>2, <4>4 DEF RuleKey
      <4>6. ~rules[l].enabled
        BY <4>5 DEF BuildLevelRule, Rule
      <4>. QED
        BY <4>5, <4>6 DEF Together, AskedRule
    <3>. QED
      BY <1>5, <3>1, <3>2 DEF AlwaysAllowed
  <2>. QED
    BY <2>1, <2>2, SumEqual, ShareOff
<1>6. CASE sampler[g] # << >> /\ ~AlwaysAllowed(sampler[g], l)
  <2>1. PICK k : k = RuleKey(sampler[g], l)
    OBVIOUS
  <2>2. k \in DOMAIN sampler[g]
    BY <1>1, <1>6, <2>1, SampledLevel
  <2>3. /\ sampler[g][k].enabled = AskedRule(g, l).enabled
        /\ sampler[g][k].initial = AskedRule(g, l).initial
        /\ sampler[g][k].thereafter = AskedRule(g, l).thereafter
        /\ Sampled(g, k) = Together(g, l)
    BY <1>1, <1>6, <2>1, RuleAsAsked
  <2>4. Deciding(g, k) = {} /\ Passing(g, k) = {}
    BY Bounds DEF Deciding, Passing, Idle
  <2>5. Cardinality(Deciding(g, k)) = 0 /\ Cardinality(Passing(g, k)) = 0
    BY <2>4, FS_EmptySet
  <2>6. PICK a \in Nat, b \in Nat : a = Sum(seen[g], Sampled(g, k)) /\ b = Sum(passed[g], Sampled(g, k))
    BY <1>1, SumType, CallersAreFinite
  <2>7. counters[g][k] = a /\ Share(sampler[g][k], counters[g][k]) = b
    BY <1>1, <2>2, <2>5, <2>6 DEF SamplingInv, CountInv, ShareInv
  <2>8. Share(sampler[g][k], a) = Share(AskedRule(g, l), a)
    BY <2>3, ShareEqual
  <2>. QED
    BY <2>3, <2>6, <2>7, <2>8
<1>. QED
  BY <1>4, <1>5, <1>6

\* However calls overlap, the share of the entries of a level, or of the levels
\* that share a rule, that a logger lets through is the one that the program
\* asked for when it made it: the loss of one count, or of one decision, or a
\* later call of the builder would change it.
THEOREM ShareIsAsAsked == Spec => []SamplingShare
BY Invariant, ShareFromInv, PTL
=============================================================================
