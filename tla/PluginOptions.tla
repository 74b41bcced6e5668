---------------------------- MODULE PluginOptions ----------------------------
(***************************************************************************)
(* sip003.rs: the environment ssserver and sslocal start the plugin with.  *)
(* A text is a sequence of symbols; only "\", ";" and "=" mean something,  *)
(* any other symbol may stand for a whole word.                            *)
(***************************************************************************)
EXTENDS Naturals, SequencesExt

BACKSLASH == "\\"
SEPARATOR == ";"
SPECIAL == {BACKSLASH, SEPARATOR, "="}

\* Positions of s in their order.
InOrder(s, positions) ==
  LET upto[i \in 0 .. Len(s)] ==
        IF i = 0 THEN <<>>
        ELSE IF i \in positions THEN Append(upto[i - 1], i) ELSE upto[i - 1]
  IN upto[Len(s)]

\* Where the loop of the three scanners takes a symbol: not after a backslash it
\* took, which takes the next one with it.
Starts(s) ==
  LET at[i \in 1 .. Len(s)] == i = 1 \/ s[i - 1] # BACKSLASH \/ ~at[i - 1]
  IN {i \in DOMAIN s : at[i]}

\* Mutant: a backslash hides the symbol after it even when it is hidden itself.
UnescapedByOne(s, delim) ==
  {i \in DOMAIN s : s[i] = delim /\ (i = 1 \/ s[i - 1] # BACKSLASH)}

Unescaped(s, delim) == {i \in Starts(s) : s[i] = delim}

SplitUnescaped(s, delim) ==
  LET cut == <<0>> \o InOrder(s, Unescaped(s, delim)) \o <<Len(s) + 1>>
  IN [k \in 1 .. Len(cut) - 1 |-> SubSeq(s, cut[k] + 1, cut[k + 1] - 1)]

\* The texts before and after the first delimiter; no value reads as "".
SplitFirstUnescaped(s, delim) ==
  IF Unescaped(s, delim) = {} THEN <<s, <<>>>>
  ELSE LET i == Min(Unescaped(s, delim))
       IN <<SubSeq(s, 1, i - 1), SubSeq(s, i + 1, Len(s))>>

\* The symbols at some positions of s, in their order.
At(s, positions) ==
  LET order == InOrder(s, positions) IN [k \in DOMAIN order |-> s[order[k]]]

Unescape(s) == At(s, DOMAIN s \ Unescaped(s, BACKSLASH))

\* The texts between the separators; an empty one is skipped.
Raws(s) ==
  LET split == SplitUnescaped(s, SEPARATOR) IN At(split, {i \in DOMAIN split : split[i] # <<>>})
KeyOf(raw) == Unescape(SplitFirstUnescaped(raw, "=")[1])
ValueOf(raw) == Unescape(SplitFirstUnescaped(raw, "=")[2])

\* PluginOptions::parse: a later value of a key replaces an earlier one.
Parse(s) ==
  LET raws == Raws(s)
  IN [ok |-> \A i \in DOMAIN raws : KeyOf(raws[i]) # <<>>,
      map |-> [k \in {KeyOf(raws[i]) : i \in DOMAIN raws} |->
                 ValueOf(raws[Max({i \in DOMAIN raws : KeyOf(raws[i]) = k})])]]

\* PluginOptions::get and contains_key, of a key that is one word.
Has(o, key) == <<key>> \in DOMAIN o
Get(o, key) == o[<<key>>]

-----------------------------------------------------------------------------
(* What the format means (the comments of sip003.rs), without scanning.    *)

\* A symbol stands for itself after an odd number of backslashes.
IsLiteral(s, i) ==
  \E n \in 1 .. i - 1 :
    /\ n % 2 = 1
    /\ \A j \in i - n .. i - 1 : s[j] = BACKSLASH
    /\ i - n = 1 \/ s[i - n - 1] # BACKSLASH

\* Where c means what it is there for.
Marks(s, c) == {i \in DOMAIN s : s[i] = c /\ ~IsLiteral(s, i)}

\* An option stands between two neighbouring separators, or ends of the text.
Borders(s, c) == {0, Len(s) + 1} \cup Marks(s, c)
Spans(s) == {p \in Borders(s, SEPARATOR) \X Borders(s, SEPARATOR) :
  p[2] > p[1] + 1 /\ ~ \E i \in Borders(s, SEPARATOR) : p[1] < i /\ i < p[2]}

\* Its key ends at the first "=", if there is one.
Equal(s, p) == Min({p[2]} \cup {i \in Marks(s, "=") : p[1] < i /\ i < p[2]})
Between(s, i, j) == At(s, (i + 1 .. j - 1) \ Marks(s, BACKSLASH))
KeyIn(s, p) == Between(s, p[1], Equal(s, p))
ValueIn(s, p) == Between(s, Equal(s, p), p[2])

\* The value of a key is that of the last option with it.
LastOf(s, k) == CHOOSE p \in Spans(s) : KeyIn(s, p) = k /\
                  \A q \in Spans(s) : KeyIn(s, q) = k => q[1] <= p[1]
Meaning(s) ==
  [ok |-> \A p \in Spans(s) : KeyIn(s, p) # <<>>,
   map |-> [k \in {KeyIn(s, p) : p \in Spans(s)} |-> ValueIn(s, LastOf(s, k))]]

\* How an operator writes a key or a value with its special symbols.
Escape(s) ==
  FlattenSeq([i \in DOMAIN s |-> IF s[i] \in SPECIAL THEN <<BACKSLASH, s[i]>> ELSE <<s[i]>>])

Option(key, value) == <<key, "=">> \o value

\* A text for a sequence of assignments <<key, value>>.
Written(assignments) ==
  FlattenSeq([i \in DOMAIN assignments |->
    Option(assignments[i][1], Escape(assignments[i][2])) \o <<SEPARATOR>>])

\* The options it is written for.
Assigned(assignments) ==
  [k \in {<<assignments[i][1]>> : i \in DOMAIN assignments} |->
     assignments[Max({i \in DOMAIN assignments : <<assignments[i][1]>> = k})][2]]

-----------------------------------------------------------------------------
(* SipEnv                                                                  *)

\* PluginOptions::mode
ModeOk(o) == Has(o, "mode") /\ Get(o, "mode") \in {<<"server">>, <<"client">>}
Mode(o) == Head(Get(o, "mode"))

\* join_host_port; a host is [ip |-> "v4" | "v6" | "name", text |-> ...].
JoinHostPort(host, port) ==
  IF host.ip = "v6" THEN <<"[", host.text, "]", ":", port>>
  ELSE <<host.text, ":", port>>

\* endpoints: where to listen and where to dial.
Endpoints(env, mode) ==
  LET remote == JoinHostPort(env.remote_host, env.remote_port)
      local == JoinHostPort(env.local_host, env.local_port)
  IN IF mode = "server" THEN [listen |-> remote, upstream |-> local]
     ELSE [listen |-> local, upstream |-> remote]

=============================================================================
