----------------------------- MODULE LogLineMC -----------------------------
(* Instances of LogLine for TLC. *)
EXTENDS LogLine

A == <<97>>
B == <<98>>
C == <<99>>
E == <<101>>

\* A value whose three texts differ, but for a stringer's %+v.
Value(kind, text) ==
    [kind |-> kind, text |-> text, error |-> Text(<<10, 120>>),
     plus |-> IF kind = "stringer" THEN text ELSE Text(<<43, 92>>)]

KeysMC == {A, B, << >>}
ValuesMC ==
    {Value("string", Text(<<34, 92>>)), Value("int", Text(<<55>>)), Value("nil", << >>),
     Value("error", << >>)}

\* The kinds of value that ValuesMC lacks; in the second a key comes twice.
BatchesMC ==
    {<<Field(A, Value("both", Text(<<115, 34>>))), Field(B, Value("bytes", Text(<<1, 34>>))),
       Field(C, Value("other", << >>)), Field(E, Value("bool", Text(<<116>>)))>>,
     <<Field(A, Value("float", Text(<<49, 46>>))), Field(A, Value("stringer", Text(<<115, 92>>))),
       Field(B, Value("complex", Text(<<40>>))), Field(C, Value("formatter", Text(<<53>>))),
       Field(E, Value("time", Text(<<50, 58>>)))>>,
     << >>}
ContextsMC ==
    {[user |-> Text(<<117, 34>>), namespace |-> << >>],
     [trace_id |-> Text(<<9>>), service |-> Text(<<92>>)]}
MessagesMC == {<< >>, Text(<<97, 34, 10>>), Text(<<127, 92, 1>>)}

\* A message beyond ASCII: U+00E9.
UnicodeMC == {<<<<195, 169>>>>}
=============================================================================
