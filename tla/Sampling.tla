------------------------------ MODULE Sampling ------------------------------
(***************************************************************************)
(* The sampler of a logger (sampling.go): the rules it makes of a          *)
(* SamplingConfig, and the decision on one entry.  Levels are 0 (Trace) to *)
(* 5 (Fatal).  A rule counts the entries it sees in one atomic counter;    *)
(* levels without a rule of their own share the default rule's counter.    *)
(***************************************************************************)
EXTENDS Integers

CONSTANTS
    DefaultSamplingInitial,     \* 100 in the code, smaller in the instances
    DefaultSamplingThereafter   \* 10 in the code

ASSUME SamplingDefaultsAssumption ==
    DefaultSamplingInitial \in Nat \ {0} /\ DefaultSamplingThereafter \in Nat \ {0}

\* What f says, and g where f says nothing.
Over(f, g) == [x \in DOMAIN f \cup DOMAIN g |-> IF x \in DOMAIN f THEN f[x] ELSE g[x]]

AllLevels == 0 .. 5
WarnLevel == 3
DefaultRule == -1  \* the key of the default rule among the rules of levels

NormalizeThreshold(value, fallback) == IF value <= 0 THEN fallback ELSE value

Rule(initial, thereafter) == [enabled |-> TRUE, initial |-> initial, thereafter |-> thereafter]
Disabled == [enabled |-> FALSE, initial |-> 0, thereafter |-> 0]

BuildDefaultSamplingRule(c) ==
    Rule(NormalizeThreshold(c.initial, DefaultSamplingInitial),
         NormalizeThreshold(c.thereafter, DefaultSamplingThereafter))

BuildLevelRule(r, base) ==
    IF r.enabled
    THEN Rule(NormalizeThreshold(r.initial, base.initial),
              NormalizeThreshold(r.thereafter, base.thereafter))
    ELSE Disabled

\* Overrides replace the clones that PerLevelThreshold gives every level.
SanitizeSamplingRules(c, rules) ==
    LET base == BuildDefaultSamplingRule(c)
        clones == [l \in (IF c.perLevel THEN AllLevels ELSE {}) \cup {DefaultRule} |-> base]
    IN Over([l \in DOMAIN rules \cap AllLevels |-> BuildLevelRule(rules[l], base)], clones)

\* A nil sampler has no rules.
NewLogSampler(c, rules) == IF c.enabled THEN SanitizeSamplingRules(c, rules) ELSE << >>

RuleKey(sampler, level) == IF level \in DOMAIN sampler THEN level ELSE DefaultRule

\* Allow asks no rule about these.
AlwaysAllowed(sampler, level) ==
    \/ level >= WarnLevel
    \/ ~sampler[RuleKey(sampler, level)].enabled

\* What Add(1) returned decides.
Allowed(rule, count) ==
    \/ count <= rule.initial
    \/ rule.thereafter <= 1
    \/ (count - rule.initial) % rule.thereafter = 0

\* Reference: how many of n entries a rule lets through.
Share(rule, n) ==
    IF ~rule.enabled \/ rule.thereafter <= 1 \/ n <= rule.initial THEN n
    ELSE rule.initial + (n - rule.initial) \div rule.thereafter
=============================================================================
