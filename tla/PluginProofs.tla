----------------------------- MODULE PluginProofs -----------------------------
(***************************************************************************)
(* Proofs about Plugin, for any options, any text, any number of generated *)
(* keys and any number of swaps.  First the two listeners' keys; then the  *)
(* option format: the scanners of sip003.rs against what the format means; *)
(* then the set-up that ech-gen-keys prints.                               *)
(***************************************************************************)
EXTENDS Plugin, Induction

\* The fields of a process that the keys need.
ServerShape ==
  /\ server = [up |-> server.up, cfg |-> server.cfg, list |-> server.list,
               key |-> server.key, cert |-> server.cert,
               generation |-> server.generation, h3 |-> server.h3,
               read |-> server.read]
  /\ server.h3 = [built |-> server.h3.built, generation |-> server.h3.generation,
                  key |-> server.h3.key]
  /\ server.generation \in Nat /\ server.h3.generation \in Nat
  /\ gens \in Nat /\ server.read \in 0 .. gens

\* A key file that can be read holds the last generated key, so whoever read
\* it before the last run of ech-gen-keys has the key of that moment.  The
\* configuration of the HTTP/3 listener is never of a generation to come.
KeyInv ==
  /\ ServerShape
  /\ key_file.is = "whole" => key_file.key = gens
  /\ server.up => server.key = IF server.cfg.ech.on THEN server.read ELSE 0
  /\ server.h3.built => server.up
  /\ server.h3.generation <= server.generation
  /\ OneEchKey

\* Before anything is generated there is no key to differ.
LEMMA KeyInit == Init => KeyInv
BY DEF Init, KeyInv, ServerShape, Down, Missing, OneEchKey

\* What a readable key file gives.
LEMMA KeyIsLast ==
  ASSUME KeyInv, NEW cfg, KeyReadable(cfg)
  PROVE  KeyRead(cfg) = IF cfg.ech.on THEN gens ELSE 0
BY DEF KeyInv, KeyReadable, KeyRead

\* A server that starts has the last generated key, and no HTTP/3 configuration.
LEMMA KeyStart ==
  ASSUME KeyInv, StartServer
  PROVE  KeyInv'
<1>1. gens' = gens /\ key_file' = key_file
  BY DEF StartServer, files
<1>2. CASE server' = server
  BY <1>1, <1>2 DEF KeyInv, ServerShape, OneEchKey
<1>3. CASE server' # server
  <2>1. PICK cfg, cert : /\ KeyReadable(cfg)
                         /\ server' = [Down EXCEPT !.up = TRUE, !.cfg = cfg,
                              !.key = KeyRead(cfg), !.cert = cert, !.read = gens]
    BY <1>3 DEF StartServer
  <2>2. server' = [up |-> TRUE, cfg |-> cfg, list |-> Missing, key |-> KeyRead(cfg),
                   cert |-> cert, generation |-> 0,
                   h3 |-> [built |-> FALSE, generation |-> 0, key |-> 0],
                   read |-> gens]
    BY <2>1 DEF Down
  <2>3. KeyRead(cfg) = IF cfg.ech.on THEN gens ELSE 0
    BY <2>1, KeyIsLast
  <2> QED BY <1>1, <2>2, <2>3 DEF KeyInv, ServerShape, OneEchKey
<1> QED BY <1>2, <1>3

\* A swap makes the HTTP/3 configuration one of an earlier generation.
LEMMA KeySwap ==
  ASSUME KeyInv, Swap
  PROVE  KeyInv'
<1>1. gens' = gens /\ key_file' = key_file /\ server.up
  BY DEF Swap, files
<1>2. CASE server' = server
  BY <1>1, <1>2 DEF KeyInv, ServerShape, OneEchKey
<1>3. CASE server' # server
  <2>1. /\ KeyReadable(server.cfg)
        /\ server' = [server EXCEPT !.key = KeyRead(server.cfg), !.cert = "acme",
                        !.generation = @ + 1, !.read = gens]
    BY <1>3 DEF Swap
  <2>2. server' = [up |-> server.up, cfg |-> server.cfg, list |-> server.list,
                   key |-> KeyRead(server.cfg), cert |-> "acme",
                   generation |-> server.generation + 1, h3 |-> server.h3,
                   read |-> gens]
    BY <2>1 DEF KeyInv, ServerShape
  <2>3. KeyRead(server.cfg) = IF server.cfg.ech.on THEN gens ELSE 0
    BY <2>1, KeyIsLast
  <2> QED BY <1>1, <2>2, <2>3 DEF KeyInv, ServerShape, OneEchKey
<1> QED BY <1>2, <1>3

\* The HTTP/3 listener reads the key file again for a new generation only; a
\* key that differs from the acceptor's was generated in between.
LEMMA KeyConnect ==
  ASSUME KeyInv, ConnectH3
  PROVE  KeyInv'
<1>1. gens' = gens /\ key_file' = key_file /\ server.up
  BY DEF ConnectH3, files
<1>2. CASE server' = server
  BY <1>1, <1>2 DEF KeyInv, ServerShape, OneEchKey
<1>3. CASE server' # server
  <2>1. CanEnsure /\ server' = [server EXCEPT !.h3 = Ensured]
    BY <1>3 DEF ConnectH3
  <2>2. Ensured # server.h3 /\ KeyReadable(server.cfg)
    BY <1>3, <2>1 DEF CanEnsure, KeyInv, ServerShape
  <2>3. Ensured = [built |-> TRUE, generation |-> server.generation,
                   key |-> KeyRead(server.cfg)]
    BY <2>2 DEF Ensured
  <2>4. server' = [up |-> server.up, cfg |-> server.cfg, list |-> server.list,
                   key |-> server.key, cert |-> server.cert,
                   generation |-> server.generation,
                   h3 |-> [built |-> TRUE, generation |-> server.generation,
                           key |-> KeyRead(server.cfg)],
                   read |-> server.read]
    BY <2>1, <2>3 DEF KeyInv, ServerShape
  <2>5. KeyRead(server.cfg) = IF server.cfg.ech.on THEN gens ELSE 0
    BY <2>2, KeyIsLast
  <2> QED BY <1>1, <2>4, <2>5 DEF KeyInv, ServerShape, OneEchKey
<1> QED BY <1>2, <1>3

\* Every step keeps the keys together.
LEMMA KeyStep == KeyInv /\ [Next]_vars => KeyInv'
<1> SUFFICES ASSUME KeyInv, [Next]_vars PROVE KeyInv'
  OBVIOUS
<1>1. CASE GenKey \/ GenList
  <2>1. gens \in Nat /\ gens' \in {gens, gens + 1} /\ server' = server
    BY <1>1 DEF KeyInv, ServerShape, GenKey, GenList
  <2>2. /\ GenKey => key_file' = Torn /\ gens' = gens + 1
        /\ GenList => key_file' = Whole(gens') /\ gens' = gens
    BY DEF GenKey, GenList
  <2> QED BY <1>1, <2>1, <2>2 DEF KeyInv, ServerShape, OneEchKey, Torn, Whole
<1>2. CASE \/ UNCHANGED vars \/ Type \/ GenPrint \/ GenStopped \/ Distribute
           \/ StartClient \/ StopClient \/ ConnectTcp
  <2>1. gens' = gens /\ key_file' = key_file /\ server' = server
    BY <1>2 DEF vars, files, Type, GenPrint, GenStopped, Distribute, StartClient,
       StopClient, ConnectTcp
  <2> QED BY <2>1 DEF KeyInv, ServerShape, OneEchKey
<1>3. CASE StopServer
  <2>1. gens' = gens /\ key_file' = key_file /\ server' = Down
    BY <1>3 DEF StopServer, files
  <2> QED BY <2>1 DEF KeyInv, ServerShape, OneEchKey, Down, Missing
<1> QED BY <1>1, <1>2, <1>3, KeyStart, KeySwap, KeyConnect DEF Next

\* The two listeners of a server accept the same ECH key unless keys were
\* generated after its acceptor read the file: a swap reaches both, and a
\* configuration of an earlier generation is never served again.
THEOREM OneKeyCorrect == Spec => []OneEchKey
<1>1. KeyInv => OneEchKey
  BY DEF KeyInv
<1> QED BY <1>1, KeyInit, KeyStep, PTL DEF Spec

-----------------------------------------------------------------------------
(* Texts: where a symbol stands for itself, and what the scanners take.    *)

\* The three symbols that mean something are different.
LEMMA Signs ==
  /\ BACKSLASH # SEPARATOR /\ BACKSLASH # "=" /\ SEPARATOR # "="
  /\ SPECIAL = {BACKSLASH, SEPARATOR, "="}
BY Zenon DEF BACKSLASH, SEPARATOR, SPECIAL

\* A symbol is literal when the one before it is a backslash that is not.
LEMMA LiteralStep ==
  ASSUME NEW s, NEW i \in Nat \ {0}
  PROVE  IsLiteral(s, i) <=> i > 1 /\ s[i - 1] = BACKSLASH /\ ~IsLiteral(s, i - 1)
<1> DEFINE Run(x, n) == /\ \A j \in x - n .. x - 1 : s[j] = BACKSLASH
                        /\ x - n = 1 \/ s[x - n - 1] # BACKSLASH
<1>0. \A x : IsLiteral(s, x) <=> \E n \in 1 .. x - 1 : n % 2 = 1 /\ Run(x, n)
  BY DEF IsLiteral
<1>1. ASSUME NEW n \in 1 .. i - 1, NEW k \in 1 .. i - 1, Run(i, n), Run(i, k)
      PROVE  n = k
  <2>1. ASSUME NEW a \in 1 .. i - 1, NEW b \in 1 .. i - 1, Run(i, a), Run(i, b), a < b PROVE FALSE
    <3>1. i - a - 1 \in i - b .. i - 1 /\ i - a # 1
      BY <2>1
    <3> QED BY <2>1, <3>1
  <2> HIDE DEF Run
  <2> QED BY <1>1, <2>1
<1>2. ASSUME i > 1, s[i - 1] = BACKSLASH
      PROVE  \E n \in 1 .. i - 1 : Run(i, n)
  <2> DEFINE T == {n \in 1 .. i - 1 : i - n = 1 \/ s[i - n - 1] # BACKSLASH}
  <2>1. i - 1 \in T
    BY <1>2
  <2>2. PICK n \in T : \A m \in T : n <= m
    <3>1. T \subseteq Nat
      OBVIOUS
    <3> HIDE DEF T
    <3> QED BY <2>1, <3>1, LeastNumber
  <2>3. ASSUME NEW j \in i - n .. i - 1 PROVE s[j] = BACKSLASH
    <3>1. CASE j = i - 1
      BY <1>2, <3>1
    <3>2. CASE j # i - 1
      <4>1. i - j - 1 \in 1 .. i - 1 /\ i - j - 1 < n /\ i - (i - j - 1) = j + 1
            /\ j + 1 # 1 /\ (j + 1) - 1 = j
        BY <3>2
      <4>2. ~(i - j - 1 \in T)
        <5>1. n \in Nat
          OBVIOUS
        <5> HIDE DEF T
        <5> QED BY <2>2, <4>1, <5>1
      <4> QED BY <4>1, <4>2
    <3> QED BY <3>1, <3>2
  <2> QED BY <2>2, <2>3
<1>3. ASSUME i > 1, s[i - 1] = BACKSLASH, NEW n \in 1 .. i - 1, n > 1
      PROVE  Run(i, n) <=> Run(i - 1, n - 1)
  <2>1. (i - 1) - (n - 1) = i - n /\ \A j \in i - n .. i - 1 : j \in i - n .. (i - 1) - 1 \/ j = i - 1
    BY <1>3
  <2> QED BY <1>3, <2>1
<1>4. CASE ~(i > 1 /\ s[i - 1] = BACKSLASH)
  <2>1. ASSUME NEW n \in 1 .. i - 1 PROVE ~Run(i, n)
    BY <1>4
  <2> HIDE DEF Run
  <2> QED BY <1>0, <1>4, <2>1
<1>5. CASE i > 1 /\ s[i - 1] = BACKSLASH
  <2>1. PICK n \in 1 .. i - 1 : Run(i, n)
    BY <1>2, <1>5
  <2>2. CASE n = 1
    <3>1. ASSUME NEW m \in 1 .. (i - 1) - 1 PROVE ~Run(i - 1, m)
      <4>1. i - 1 # 1 /\ i - n - 1 = (i - 1) - 1 /\ (i - 1) - 1 \in (i - 1) - m .. (i - 1) - 1
        BY <2>2
      <4> QED BY <2>1, <2>2, <4>1
    <3>2. n % 2 = 1
      BY <2>2
    <3> HIDE DEF Run
    <3> QED BY <1>0, <1>5, <2>1, <3>1, <3>2
  <2>3. CASE n # 1
    <3>1. Run(i - 1, n - 1) /\ n > 1 /\ n - 1 \in 1 .. (i - 1) - 1
      <4>1. n > 1 /\ n - 1 \in 1 .. (i - 1) - 1
        BY <2>3
      <4> HIDE DEF Run
      <4> QED BY <1>3, <1>5, <2>1, <4>1
    <3>2. ASSUME NEW m \in 1 .. (i - 1) - 1, Run(i - 1, m) PROVE m = n - 1
      <4>1. m + 1 \in 1 .. i - 1 /\ m + 1 > 1 /\ (m + 1) - 1 = m
        BY <1>5
      <4>2. Run(i, m + 1)
        <5> HIDE DEF Run
        <5> QED BY <1>3, <1>5, <3>2, <4>1
      <4>3. m + 1 = n
        <5> HIDE DEF Run
        <5> QED BY <1>1, <2>1, <4>1, <4>2
      <4> QED BY <4>3
    <3>3. n % 2 = 1 <=> ~((n - 1) % 2 = 1)
      OBVIOUS
    <3>4. IsLiteral(s, i) <=> n % 2 = 1
      <4> HIDE DEF Run
      <4> QED BY <1>0, <1>1, <2>1
    <3>5. IsLiteral(s, i - 1) <=> (n - 1) % 2 = 1
      <4> HIDE DEF Run
      <4> QED BY <1>0, <3>1, <3>2
    <3> QED BY <1>5, <3>3, <3>4, <3>5
  <2> QED BY <2>2, <2>3
<1> QED BY <1>4, <1>5

\* The scanners take the symbols that are not literal.
LEMMA StartsAre ==
  ASSUME NEW S, NEW s \in Seq(S)
  PROVE  Starts(s) = {i \in 1 .. Len(s) : ~IsLiteral(s, i)}
<1> DEFINE n == Len(s)
           step == [i \in 1 .. n |-> [b \in BOOLEAN |-> i = 1 \/ s[i - 1] # BACKSLASH \/ ~b]]
<1>0. n \in Nat /\ DOMAIN s = 1 .. n
  OBVIOUS
<1>1. PICK t \in [0 .. n -> BOOLEAN] : Along(t, n, TRUE, step)
  <2>1. step \in [1 .. n -> [BOOLEAN -> BOOLEAN]]
    OBVIOUS
  <2> HIDE DEF step, n
  <2> QED BY <1>0, <2>1, RecursionAlong
<1> DEFINE Def(f) == f = [i \in 1 .. n |-> i = 1 \/ s[i - 1] # BACKSLASH \/ ~f[i - 1]]
           at == CHOOSE f : Def(f)
           g == [i \in 1 .. n |-> t[i]]
<1>2. ASSUME NEW i \in 1 .. n
      PROVE  t[i] = (i = 1 \/ s[i - 1] # BACKSLASH \/ ~t[i - 1])
  <2>1. t[i] = step[i][t[i - 1]] /\ t[i - 1] \in BOOLEAN
    <3>1. i - 1 \in 0 .. n
      BY <1>0
    <3> HIDE DEF step, n
    <3> QED BY <1>1, <3>1 DEF Along
  <2> QED BY <2>1
<1>3. Def(g)
  <2>1. ASSUME NEW i \in 1 .. n PROVE g[i] = (i = 1 \/ s[i - 1] # BACKSLASH \/ ~g[i - 1])
    <3>1. CASE i = 1
      <4> HIDE DEF n
      <4> QED BY <1>2, <3>1
    <3>2. CASE i # 1
      <4>1. i - 1 \in 1 .. n
        BY <1>0, <3>2
      <4> HIDE DEF n
      <4> QED BY <1>2, <4>1
    <3> QED BY <3>1, <3>2
  <2> HIDE DEF n
  <2> QED BY <2>1
<1>4. Def(at)
  <2> HIDE DEF Def, g
  <2> QED BY <1>3
<1>5. ASSUME NEW i \in 1 .. n
      PROVE  at[i] = (i = 1 \/ s[i - 1] # BACKSLASH \/ ~at[i - 1])
  <2> HIDE DEF at, n
  <2> QED BY <1>4
<1>6. Starts(s) = {i \in 1 .. n : at[i]}
  BY <1>0 DEF Starts
<1> DEFINE T == {k \in Nat : k + 1 <= n => (at[k + 1] <=> ~IsLiteral(s, k + 1))}
<1>7. 0 \in T
  <2>1. ~IsLiteral(s, 1)
    BY LiteralStep
  <2> HIDE DEF at
  <2> QED BY <1>5, <2>1
<1>8. ASSUME NEW k \in T PROVE k + 1 \in T
  <2> SUFFICES ASSUME (k + 1) + 1 <= n PROVE at[(k + 1) + 1] <=> ~IsLiteral(s, (k + 1) + 1)
    <3> HIDE DEF at, n
    <3> QED OBVIOUS
  <2> DEFINE i == (k + 1) + 1
  <2>1. i \in 1 .. n /\ i > 1 /\ i - 1 = k + 1 /\ i \in Nat \ {0} /\ k + 1 <= n
    BY <1>0
  <2>2. at[k + 1] <=> ~IsLiteral(s, k + 1)
    <3> HIDE DEF at, n
    <3> QED BY <2>1
  <2>3. at[i] = (i = 1 \/ s[i - 1] # BACKSLASH \/ ~at[i - 1])
    <3> HIDE DEF at, n, i
    <3> QED BY <1>5, <2>1
  <2>4. IsLiteral(s, i) <=> i > 1 /\ s[i - 1] = BACKSLASH /\ ~IsLiteral(s, i - 1)
    <3> HIDE DEF at, n, i
    <3> QED BY <2>1, LiteralStep
  <2> HIDE DEF at, n, i
  <2>e. i - 1 = k + 1
    BY <2>1
  <2>f. at[i - 1] <=> ~IsLiteral(s, i - 1)
    BY ONLY <2>2, <2>e, Zenon
  <2>5. at[i] <=> ~IsLiteral(s, i)
    <3>1. i # 1
      BY <2>1
    <3>2. i > 1
      BY <2>1
    <3> QED BY ONLY <2>3, <2>4, <2>f, <3>1, <3>2, Zenon
  <2> QED BY <2>5 DEF i
<1>9. T = Nat
  <2>1. T \subseteq Nat
    OBVIOUS
  <2> HIDE DEF T
  <2> QED BY <1>7, <1>8, <2>1, NumberInduction
<1>10. ASSUME NEW i \in 1 .. n PROVE at[i] <=> ~IsLiteral(s, i)
  <2>1. PICK k \in Nat : k + 1 = i /\ i <= n
    BY <1>0
  <2>2. k \in T
    <3> HIDE DEF T
    <3> QED BY <1>9
  <2>3. at[k + 1] <=> ~IsLiteral(s, k + 1)
    <3> HIDE DEF at, n
    <3> QED BY <2>1, <2>2
  <2>4. k + 1 = i
    BY <2>1
  <2> HIDE DEF at, n, T
  <2> QED BY ONLY <2>3, <2>4, Zenon
<1> HIDE DEF at
<1> QED BY <1>6, <1>10

-----------------------------------------------------------------------------
(* Sets of positions in their order.                                       *)

\* o is the numbers of P in their order.
Ordered(o, P) ==
  /\ o \in Seq(Nat)
  /\ \A i \in 1 .. Len(o) : o[i] \in P
  /\ \A i, j \in 1 .. Len(o) : i < j => o[i] < o[j]
  /\ \A p \in P : \E i \in 1 .. Len(o) : o[i] = p

\* A position behind all others is put at the end.
LEMMA OrderMore ==
  ASSUME NEW o, NEW P, Ordered(o, P), NEW n \in Nat, \A p \in P : p < n
  PROVE  Ordered(Append(o, n), P \cup {n})
<1> DEFINE m == Len(o)
           r == Append(o, n)
<1>1. o \in Seq(Nat) /\ m \in Nat /\ \A i \in 1 .. m : o[i] \in Nat /\ o[i] \in P /\ o[i] < n
  BY DEF Ordered
<1>2. /\ r \in Seq(Nat) /\ Len(r) = m + 1 /\ r[m + 1] = n
      /\ \A i \in 1 .. m : r[i] = o[i]
  BY <1>1
<1>3. \A i \in 1 .. m + 1 : i = m + 1 \/ i \in 1 .. m
  BY <1>1
<1>4. /\ \A i, j \in 1 .. m : i < j => o[i] < o[j]
      /\ \A p \in P : \E i \in 1 .. m : o[i] = p
  BY DEF Ordered
<1> HIDE DEF m, r
<1>5. ASSUME NEW i \in 1 .. m + 1, NEW j \in 1 .. m + 1, i < j PROVE r[i] < r[j]
  <2>1. i \in 1 .. m
    BY <1>1, <1>5
  <2>2. CASE j = m + 1
    BY <1>1, <1>2, <2>1, <2>2
  <2>3. CASE j \in 1 .. m
    BY <1>2, <1>4, <1>5, <2>1, <2>3
  <2> QED BY <1>3, <2>2, <2>3
<1>6. ASSUME NEW p \in P \cup {n} PROVE \E i \in 1 .. m + 1 : r[i] = p
  <2>1. m + 1 \in 1 .. m + 1 /\ \A i \in 1 .. m : i \in 1 .. m + 1
    BY <1>1
  <2> QED BY <1>2, <1>4, <2>1
<1>7. ASSUME NEW i \in 1 .. m + 1 PROVE r[i] \in P \cup {n}
  BY <1>1, <1>2, <1>3
<1>8. Ordered(r, P \cup {n})
  BY <1>2, <1>5, <1>6, <1>7 DEF Ordered
<1> QED BY <1>8 DEF r

\* Two sets that differ by a shift are ordered alike.
LEMMA OrderShifted ==
  ASSUME NEW a, NEW P, Ordered(a, P), NEW b, NEW Q, Ordered(b, Q), NEW d \in Int,
         \A p \in P : p + d \in Q, \A q \in Q : q - d \in P
  PROVE  Len(a) <= Len(b) /\ \A k \in 1 .. Len(a) : b[k] = a[k] + d
<1> DEFINE n == Len(a)
           m == Len(b)
           Same(k) == k <= m /\ b[k] = a[k] + d
           T == {k \in Nat : k <= n => \A i \in 1 .. k : Same(i)}
<1>1. /\ n \in Nat /\ m \in Nat
      /\ \A i \in 1 .. n : a[i] \in Nat /\ a[i] \in P
      /\ \A i \in 1 .. m : b[i] \in Nat /\ b[i] \in Q
  BY DEF Ordered
<1>2. /\ \A i, j \in 1 .. n : i < j => a[i] < a[j]
      /\ \A i, j \in 1 .. m : i < j => b[i] < b[j]
      /\ \A p \in P : \E i \in 1 .. n : a[i] = p
      /\ \A q \in Q : \E i \in 1 .. m : b[i] = q
  BY DEF Ordered
<1>3. 0 \in T
  OBVIOUS
<1>4. ASSUME NEW k \in T PROVE k + 1 \in T
  <2>1. SUFFICES ASSUME k + 1 <= n PROVE Same(k + 1)
    <3>1. \A i \in 1 .. k + 1 : i \in 1 .. k \/ i = k + 1
      OBVIOUS
    <3>2. k + 1 <= n => k <= n
      BY <1>1
    <3> HIDE DEF n, m, Same
    <3> QED BY <3>1, <3>2
  <2>2. k \in Nat /\ k + 1 \in 1 .. n /\ \A i \in 1 .. k : Same(i) /\ i \in 1 .. n
    <3> HIDE DEF n, m, Same
    <3> QED BY <1>1, <2>1
  <2> HIDE DEF T, n, m
  <2>3. PICK l \in 1 .. m : b[l] = a[k + 1] + d
    BY <1>1, <1>2, <2>2
  <2>4. l >= k + 1
    <3>1. SUFFICES ASSUME l < k + 1 PROVE FALSE
      BY <2>2
    <3>2. l \in 1 .. k /\ l \in 1 .. n
      BY <1>1, <2>2, <3>1
    <3>3. b[l] = a[l] + d /\ a[l] < a[k + 1]
      BY <1>2, <2>2, <3>1, <3>2
    <3> QED BY <1>1, <2>2, <2>3, <3>2, <3>3
  <2>5. CASE l = k + 1
    BY <2>3, <2>5, <1>1
  <2>6. CASE l > k + 1
    <3>1. k + 1 \in 1 .. m /\ b[k + 1] < b[l]
      BY <1>1, <1>2, <2>2, <2>6
    <3>2. PICK j \in 1 .. n : a[j] = b[k + 1] - d
      BY <1>1, <1>2, <3>1
    <3>3. a[j] < a[k + 1]
      <4>1. a[j] \in Nat /\ a[k + 1] \in Nat /\ b[k + 1] \in Nat /\ b[l] \in Nat
        BY <1>1, <2>2, <3>1
      <4> QED BY ONLY <4>1, <3>1, <3>2, <2>3, d \in Int
    <3>4. j < k + 1
      <4>1. SUFFICES ASSUME j >= k + 1 PROVE FALSE
        BY <1>1, <2>2
      <4>2. a[k + 1] <= a[j]
        BY <1>1, <1>2, <2>2, <4>1
      <4> QED BY <1>1, <2>2, <3>3, <4>2
    <3>5. b[j] = a[j] + d /\ b[j] < b[k + 1]
      <4>1. j \in 1 .. k /\ j \in 1 .. m
        BY <1>1, <2>2, <3>1, <3>4
      <4> QED BY <1>2, <2>2, <3>1, <3>4, <4>1
    <3> QED BY <1>1, <3>1, <3>2, <3>5
  <2> QED BY <1>1, <2>2, <2>4, <2>5, <2>6
<1>5. T = Nat
  <2>1. T \subseteq Nat
    OBVIOUS
  <2> HIDE DEF T
  <2> QED BY <1>3, <1>4, <2>1, NumberInduction
<1>6. \A i \in 1 .. n : Same(i)
  <2>1. n \in T
    <3> HIDE DEF T, n
    <3> QED BY <1>1, <1>5
  <2> HIDE DEF n, Same
  <2> QED BY <1>1, <2>1
<1>7. n <= m
  <2>1. CASE n = 0
    BY <1>1, <2>1
  <2>2. CASE n # 0
    <3>1. n \in 1 .. n
      BY <1>1, <2>2
    <3> QED BY <1>6, <3>1
  <2> QED BY <2>1, <2>2
<1> QED BY <1>6, <1>7

\* There is one order of a set of positions.
LEMMA OrderSame ==
  ASSUME NEW a, NEW P, Ordered(a, P), NEW b, Ordered(b, P)
  PROVE  a = b
<1>1. \A p \in P : p + 0 \in P /\ p - 0 \in P
  <2>1. \A p \in P : p \in Nat
    BY DEF Ordered
  <2> QED BY <2>1
<1>2. Len(a) <= Len(b) /\ \A k \in 1 .. Len(a) : b[k] = a[k] + 0
  BY <1>1, OrderShifted
<1>3. Len(b) <= Len(a)
  BY <1>1, OrderShifted
<1>4. a \in Seq(Nat) /\ b \in Seq(Nat)
  BY DEF Ordered
<1>5. Len(a) = Len(b) /\ \A k \in 1 .. Len(a) : b[k] = a[k]
  BY <1>2, <1>3, <1>4
<1>6. a = [k \in 1 .. Len(a) |-> a[k]] /\ b = [k \in 1 .. Len(b) |-> b[k]]
  BY ONLY <1>4
<1> QED BY ONLY <1>5, <1>6

\* InOrder lists the positions.
LEMMA InOrderIs ==
  ASSUME NEW s, Len(s) \in Nat, NEW P, P \subseteq 1 .. Len(s)
  PROVE  Ordered(InOrder(s, P), P)
<1> DEFINE n == Len(s)
           step == [i \in 1 .. n |-> [o \in Seq(Nat) |-> IF i \in P THEN Append(o, i) ELSE o]]
<1>0. n \in Nat
  OBVIOUS
<1>1. PICK t \in [0 .. n -> Seq(Nat)] : Along(t, n, <<>>, step)
  <2>1. step \in [1 .. n -> [Seq(Nat) -> Seq(Nat)]]
    OBVIOUS
  <2>2. <<>> \in Seq(Nat)
    OBVIOUS
  <2> HIDE DEF step, n
  <2> QED BY <1>0, <2>1, <2>2, RecursionAlong
<1> DEFINE Def(f) == f = [i \in 0 .. n |-> IF i = 0 THEN <<>>
                            ELSE IF i \in P THEN Append(f[i - 1], i) ELSE f[i - 1]]
           upto == CHOOSE f : Def(f)
<1>2. Def(t)
  <2>1. ASSUME NEW i \in 0 .. n
        PROVE  t[i] = IF i = 0 THEN <<>> ELSE IF i \in P THEN Append(t[i - 1], i) ELSE t[i - 1]
    <3>1. CASE i = 0
      BY <1>1, <3>1 DEF Along
    <3>2. CASE i # 0
      <4>1. i \in 1 .. n /\ i - 1 \in 0 .. n
        BY <1>0, <3>2
      <4>2. t[i] = step[i][t[i - 1]] /\ t[i - 1] \in Seq(Nat)
        <5> HIDE DEF step, n
        <5> QED BY <1>1, <4>1 DEF Along
      <4> QED BY <3>2, <4>1, <4>2
    <3> QED BY <3>1, <3>2
  <2> HIDE DEF n
  <2> QED BY <2>1
<1>3. Def(upto)
  <2> HIDE DEF Def
  <2> QED BY <1>2
<1>4. InOrder(s, P) = upto[n]
  BY DEF InOrder
<1> HIDE DEF upto
<1> DEFINE T == {k \in Nat : k <= n => Ordered(upto[k], P \cap 1 .. k)}
<1>5. 0 \in T
  <2>1. upto[0] = <<>> /\ P \cap 1 .. 0 = {}
    BY <1>0, <1>3
  <2>2. Ordered(<<>>, {})
    BY DEF Ordered
  <2> QED BY <2>1, <2>2
<1>6. ASSUME NEW k \in T PROVE k + 1 \in T
  <2> SUFFICES ASSUME k + 1 <= n PROVE Ordered(upto[k + 1], P \cap 1 .. k + 1)
    <3> HIDE DEF n
    <3> QED OBVIOUS
  <2>1. k \in Nat /\ k + 1 \in 0 .. n /\ k + 1 # 0 /\ (k + 1) - 1 = k /\ Ordered(upto[k], P \cap 1 .. k)
    <3> HIDE DEF n
    <3> QED BY <1>0
  <2>2. upto[k + 1] = IF k + 1 \in P THEN Append(upto[k], k + 1) ELSE upto[k]
    <3> HIDE DEF n, T
    <3> QED BY <1>3, <2>1
  <2>3. CASE k + 1 \in P
    <3>1. P \cap 1 .. k + 1 = (P \cap 1 .. k) \cup {k + 1} /\ \A p \in P \cap 1 .. k : p < k + 1
      BY <2>1, <2>3
    <3>2. Ordered(Append(upto[k], k + 1), (P \cap 1 .. k) \cup {k + 1})
      <4>1. k + 1 \in Nat
        BY <2>1
      <4> QED BY <2>1, <3>1, <4>1, OrderMore
    <3> QED BY <2>2, <2>3, <3>1, <3>2
  <2>4. CASE k + 1 \notin P
    <3>1. P \cap 1 .. k + 1 = P \cap 1 .. k
      BY <2>1, <2>4
    <3> QED BY <2>1, <2>2, <2>4, <3>1
  <2> QED BY <2>3, <2>4
<1>7. T = Nat
  <2>1. T \subseteq Nat
    OBVIOUS
  <2> HIDE DEF T
  <2> QED BY <1>5, <1>6, <2>1, NumberInduction
<1>8. Ordered(upto[n], P \cap 1 .. n)
  <2>1. n \in T
    <3> HIDE DEF T, n
    <3> QED BY <1>0, <1>7
  <2> HIDE DEF n
  <2> QED BY <1>0, <2>1
<1>9. P \cap 1 .. n = P
  OBVIOUS
<1> QED BY <1>4, <1>8, <1>9

\* The positions Q of t are the positions P of s moved by d, and hold the same.
Moved(s, P, t, Q, d) ==
  /\ Len(s) \in Nat /\ P \subseteq 1 .. Len(s)
  /\ Len(t) \in Nat /\ Q \subseteq 1 .. Len(t)
  /\ \A p \in P : p + d \in Q /\ t[p + d] = s[p]
  /\ \A q \in Q : q - d \in P

\* The same symbols somewhere else are the same text.
LEMMA AtMoved ==
  ASSUME NEW s, NEW P, NEW t, NEW Q, NEW d \in Int, Moved(s, P, t, Q, d)
  PROVE  At(t, Q) = At(s, P)
<1> USE DEF Moved
<1> DEFINE a == InOrder(s, P)
           b == InOrder(t, Q)
<1>1. Ordered(a, P) /\ Ordered(b, Q)
  BY InOrderIs
<1>2. At(s, P) = [k \in DOMAIN a |-> s[a[k]]] /\ At(t, Q) = [k \in DOMAIN b |-> t[b[k]]]
  BY DEF At
<1> HIDE DEF a, b
<1>0. (\A p \in P : p + d \in Q) /\ (\A q \in Q : q - d \in P) /\ d \in Int
  OBVIOUS
<1>3. Len(a) <= Len(b) /\ \A k \in 1 .. Len(a) : b[k] = a[k] + d
  BY ONLY <1>0, <1>1, OrderShifted
<1>4. Len(b) <= Len(a)
  <2>1. 0 - d \in Int
    OBVIOUS
  <2>2. (\A p \in P : p - (0 - d) \in Q) /\ (\A q \in Q : q + (0 - d) \in P)
    <3>1. (\A p \in P : p - (0 - d) = p + d) /\ (\A q \in Q : q + (0 - d) = q - d)
      OBVIOUS
    <3> QED BY <3>1
  <2> QED BY <1>1, <2>1, <2>2, OrderShifted
<1>5. a \in Seq(Nat) /\ b \in Seq(Nat) /\ \A k \in 1 .. Len(a) : a[k] \in P
  BY <1>1 DEF Ordered
<1>6. DOMAIN a = 1 .. Len(a) /\ DOMAIN b = 1 .. Len(a)
  BY <1>3, <1>4, <1>5
<1>7. \A k \in 1 .. Len(a) : t[b[k]] = s[a[k]]
  BY <1>3, <1>5
<1> QED BY <1>2, <1>6, <1>7

-----------------------------------------------------------------------------
(* A part of a text reads as it does on its own.                           *)

\* 0 stands before all positions.
LEMMA OrderFirst ==
  ASSUME NEW o, NEW P, Ordered(o, P), \A p \in P : p > 0
  PROVE  Ordered(<<0>> \o o, {0} \cup P)
<1> DEFINE m == Len(o)
           r == <<0>> \o o
<1>1. o \in Seq(Nat) /\ m \in Nat /\ \A i \in 1 .. m : o[i] \in Nat /\ o[i] \in P /\ o[i] > 0
  BY DEF Ordered
<1>2. /\ r \in Seq(Nat) /\ Len(r) = m + 1 /\ r[1] = 0
      /\ \A i \in 2 .. m + 1 : r[i] = o[i - 1]
  BY <1>1
<1>3. \A i \in 1 .. m + 1 : i = 1 \/ (i \in 2 .. m + 1 /\ i - 1 \in 1 .. m)
  BY <1>1
<1>4. /\ \A i, j \in 1 .. m : i < j => o[i] < o[j]
      /\ \A p \in P : \E i \in 1 .. m : o[i] = p
  BY DEF Ordered
<1> HIDE DEF m, r
<1>5. ASSUME NEW i \in 1 .. m + 1, NEW j \in 1 .. m + 1, i < j PROVE r[i] < r[j]
  <2>1. j \in 2 .. m + 1 /\ j - 1 \in 1 .. m
    BY <1>1, <1>3, <1>5
  <2>2. CASE i = 1
    BY <1>1, <1>2, <2>1, <2>2
  <2>3. CASE i # 1
    <3>1. i \in 2 .. m + 1 /\ i - 1 \in 1 .. m /\ i - 1 < j - 1
      BY <1>1, <1>3, <1>5, <2>3
    <3>2. o[i - 1] < o[j - 1]
      BY <1>4, <2>1, <3>1
    <3> QED BY <1>2, <2>1, <3>1, <3>2
  <2> QED BY <2>2, <2>3
<1>6. ASSUME NEW p \in {0} \cup P PROVE \E i \in 1 .. m + 1 : r[i] = p
  <2>1. CASE p = 0
    <3>1. 1 \in 1 .. m + 1
      BY <1>1
    <3> QED BY <1>2, <2>1, <3>1
  <2>2. CASE p \in P
    <3>1. PICK i \in 1 .. m : o[i] = p
      BY <1>4, <2>2
    <3>2. i + 1 \in 2 .. m + 1 /\ i + 1 \in 1 .. m + 1 /\ (i + 1) - 1 = i
      BY <1>1
    <3> QED BY <1>2, <3>1, <3>2
  <2> QED BY <2>1, <2>2
<1>7. ASSUME NEW i \in 1 .. m + 1 PROVE r[i] \in {0} \cup P
  BY <1>1, <1>2, <1>3
<1>8. Ordered(r, {0} \cup P)
  BY <1>2, <1>5, <1>6, <1>7 DEF Ordered
<1> QED BY <1>8 DEF r

\* The scanners take a delimiter exactly where it means something.
LEMMA MarksAre ==
  ASSUME NEW S, NEW s \in Seq(S), NEW c
  PROVE  /\ Unescaped(s, c) = Marks(s, c)
         /\ Marks(s, c) = {i \in 1 .. Len(s) : s[i] = c /\ ~IsLiteral(s, i)}
<1>1. Marks(s, c) = {i \in 1 .. Len(s) : s[i] = c /\ ~IsLiteral(s, i)}
  BY DEF Marks
<1>2. Unescaped(s, c) = {i \in 1 .. Len(s) : s[i] = c /\ ~IsLiteral(s, i)}
  BY StartsAre DEF Unescaped
<1> QED BY <1>1, <1>2

\* The symbols between two positions.
LEMMA PartIs ==
  ASSUME NEW S, NEW s \in Seq(S), NEW x \in Nat, NEW y \in Nat, x < y, y <= Len(s) + 1
  PROVE  /\ SubSeq(s, x + 1, y - 1) \in Seq(S)
         /\ Len(SubSeq(s, x + 1, y - 1)) = y - 1 - x
         /\ Lies(s, x, SubSeq(s, x + 1, y - 1))
         /\ SubSeq(s, x + 1, y - 1) = <<>> <=> y = x + 1
<1> DEFINE t == SubSeq(s, x + 1, y - 1)
<1>1. Len(s) \in Nat /\ x + 1 \in Nat /\ y - 1 \in Nat
  OBVIOUS
<1>2. t \in Seq(S) /\ Len(t) = y - 1 - x /\ \A j \in 1 .. y - 1 - x : t[j] = s[x + j]
  <2>1. t = [i \in 1 .. (y - 1) - (x + 1) + 1 |-> s[i + (x + 1) - 1]]
    BY <1>1
  <2>2. (y - 1) - (x + 1) + 1 = y - 1 - x /\ \A i \in 1 .. y - 1 - x : i + (x + 1) - 1 = x + i /\ x + i \in 1 .. Len(s)
    BY <1>1
  <2>3. y - 1 - x \in Nat
    BY <1>1
  <2> HIDE DEF t
  <2>4. t = [i \in 1 .. y - 1 - x |-> s[x + i]]
    BY <2>1, <2>2
  <2>5. \A i \in 1 .. y - 1 - x : s[x + i] \in S
    BY <2>2
  <2> QED BY <2>3, <2>4, <2>5
<1> HIDE DEF t
<1>3. t = <<>> <=> Len(t) = 0
  BY <1>2
<1>4. t = <<>> <=> y = x + 1
  BY <1>2, <1>3
<1> QED BY <1>2, <1>4 DEF t, Lies

\* What is literal in a part that begins after a symbol that is not a taken
\* backslash is literal in the whole.
LEMMA PartLiteral ==
  ASSUME NEW S, NEW t \in Seq(S), NEW b, NEW p \in Nat, Lies(b, p, t), ~IsLiteral(b, p + 1)
  PROVE  \A j \in 1 .. Len(t) + 1 : IsLiteral(t, j) <=> IsLiteral(b, p + j)
<1> DEFINE n == Len(t)
           T == {k \in Nat : k <= n => (IsLiteral(t, k + 1) <=> IsLiteral(b, p + (k + 1)))}
<1>0. n \in Nat
  OBVIOUS
<1>1. 0 \in T
  <2>1. ~IsLiteral(t, 1)
    BY LiteralStep
  <2>2. 0 + 1 = 1
    OBVIOUS
  <2> QED BY <2>1, <2>2
<1>2. ASSUME NEW k \in T PROVE k + 1 \in T
  <2> SUFFICES ASSUME k + 1 <= n
               PROVE  IsLiteral(t, (k + 1) + 1) <=> IsLiteral(b, p + ((k + 1) + 1))
    <3> HIDE DEF n
    <3> QED OBVIOUS
  <2>1. k \in Nat /\ (IsLiteral(t, k + 1) <=> IsLiteral(b, p + (k + 1))) /\ k + 1 \in 1 .. n
    <3> HIDE DEF n
    <3> QED BY <1>0
  <2>2. t[k + 1] = b[p + (k + 1)]
    BY <2>1 DEF Lies
  <2> DEFINE i == (k + 1) + 1
             l == p + ((k + 1) + 1)
  <2>3. i \in Nat \ {0} /\ i > 1 /\ l \in Nat \ {0} /\ l > 1 /\ i - 1 = k + 1 /\ l - 1 = p + (k + 1)
    BY <2>1
  <2>4. IsLiteral(t, i) <=> i > 1 /\ t[i - 1] = BACKSLASH /\ ~IsLiteral(t, i - 1)
    <3> HIDE DEF i
    <3> QED BY <2>3, LiteralStep
  <2>5. IsLiteral(b, l) <=> l > 1 /\ b[l - 1] = BACKSLASH /\ ~IsLiteral(b, l - 1)
    <3> HIDE DEF l
    <3> QED BY <2>3, LiteralStep
  <2>6. IsLiteral(t, i) <=> t[k + 1] = BACKSLASH /\ ~IsLiteral(t, k + 1)
    <3> HIDE DEF i, n, T
    <3> QED BY ONLY <2>3, <2>4
  <2>7. IsLiteral(b, l) <=> b[p + (k + 1)] = BACKSLASH /\ ~IsLiteral(b, p + (k + 1))
    <3> HIDE DEF l, n, T
    <3> QED BY ONLY <2>3, <2>5
  <2>8. IsLiteral(t, i) <=> IsLiteral(b, l)
    <3> HIDE DEF i, l, n, T
    <3> QED BY ONLY <2>1, <2>2, <2>6, <2>7, Zenon
  <2> QED BY <2>8
<1>3. T = Nat
  <2>1. T \subseteq Nat
    OBVIOUS
  <2> HIDE DEF T
  <2> QED BY <1>1, <1>2, <2>1, NumberInduction
<1>4. ASSUME NEW j \in 1 .. n + 1 PROVE IsLiteral(t, j) <=> IsLiteral(b, p + j)
  <2>1. PICK k \in Nat : k + 1 = j /\ k <= n
    <3>1. j - 1 \in Nat /\ (j - 1) + 1 = j /\ j - 1 <= n
      BY <1>0
    <3> QED BY <3>1
  <2>2. k \in T
    <3> HIDE DEF T
    <3> QED BY <1>3
  <2>3. IsLiteral(t, k + 1) <=> IsLiteral(b, p + (k + 1))
    <3> HIDE DEF n
    <3> QED BY <2>1, <2>2
  <2>4. k + 1 = j
    BY <2>1
  <2> HIDE DEF n, T
  <2> QED BY ONLY <2>3, <2>4, Zenon
<1> QED BY <1>4

\* The marks of a part are those of the whole that stand in it.
LEMMA PartMarks ==
  ASSUME NEW S, NEW t \in Seq(S), NEW b, NEW p \in Nat, Lies(b, p, t), ~IsLiteral(b, p + 1), NEW c
  PROVE  Unescaped(t, c) = {j \in 1 .. Len(t) : b[p + j] = c /\ ~IsLiteral(b, p + j)}
<1>1. ASSUME NEW j \in 1 .. Len(t)
      PROVE  t[j] = b[p + j] /\ (IsLiteral(t, j) <=> IsLiteral(b, p + j))
  <2>1. j \in 1 .. Len(t) + 1
    OBVIOUS
  <2> QED BY <2>1, PartLiteral DEF Lies
<1> QED BY <1>1, MarksAre

\* Positions without the backslashes that are taken.
Kept(b, x, y) == {i \in x + 1 .. y - 1 : ~ (b[i] = BACKSLASH /\ ~IsLiteral(b, i))}

\* Unescaping a part is dropping what escapes in it.
LEMMA PartUnescaped ==
  ASSUME NEW S, NEW t \in Seq(S), NEW b, Len(b) \in Nat, NEW p \in Nat, Lies(b, p, t),
         p + Len(t) <= Len(b), ~IsLiteral(b, p + 1)
  PROVE  Unescape(t) = At(b, Kept(b, p, p + Len(t) + 1))
<1> DEFINE n == Len(t)
           P == Kept(b, p, p + Len(t) + 1)
           Q == 1 .. n \ Unescaped(t, BACKSLASH)
<1>0. n \in Nat /\ DOMAIN t = 1 .. n
  OBVIOUS
<1>1. Q = {j \in 1 .. n : ~ (b[p + j] = BACKSLASH /\ ~IsLiteral(b, p + j))}
  BY PartMarks
<1>2. P \subseteq 1 .. Len(b) /\ Q \subseteq 1 .. n
  BY <1>0 DEF Kept
<1>d. PICK d \in Int : d = 0 - p
  OBVIOUS
<1>3. ASSUME NEW i \in P PROVE i + d \in Q /\ t[i + d] = b[i]
  <2>1. i \in p + 1 .. p + n + 1 - 1 /\ ~ (b[i] = BACKSLASH /\ ~IsLiteral(b, i))
    BY DEF Kept
  <2>2. PICK j \in 1 .. n : j = i + d /\ p + j = i
    <3>1. i + d \in 1 .. n /\ p + (i + d) = i
      BY <1>0, <1>d, <2>1
    <3> QED BY <3>1
  <2>3. t[j] = b[p + j]
    BY DEF Lies
  <2> HIDE DEF Q, P, n
  <2> QED BY <1>1, <2>1, <2>2, <2>3
<1>4. ASSUME NEW j \in Q PROVE j - d \in P
  <2>1. j \in 1 .. n /\ ~ (b[p + j] = BACKSLASH /\ ~IsLiteral(b, p + j))
    <3> HIDE DEF Q
    <3> QED BY <1>1
  <2>2. j - d = p + j /\ p + j \in p + 1 .. p + n + 1 - 1
    BY <1>0, <1>d, <2>1
  <2> QED BY <2>1, <2>2 DEF Kept
<1>5. Unescape(t) = At(t, Q)
  BY <1>0 DEF Unescape
<1> HIDE DEF P, Q, n
<1>7. At(t, Q) = At(b, P)
  <2>1. Len(t) \in Nat /\ Q \subseteq 1 .. Len(t)
    BY <1>0, <1>2 DEF n
  <2>2. Moved(b, P, t, Q, d)
    BY <1>2, <1>3, <1>4, <2>1 DEF Moved
  <2> QED BY ONLY <2>2, AtMoved, d \in Int
<1> QED BY <1>5, <1>7 DEF P, n

-----------------------------------------------------------------------------
(* Splitting at the separators.                                            *)

\* cut is where s is split, with its ends.
IsCut(s, c, cut) ==
  /\ Ordered(cut, Borders(s, c)) /\ Len(cut) >= 2
  /\ SplitUnescaped(s, c) =
       [k \in 1 .. Len(cut) - 1 |-> SubSeq(s, cut[k] + 1, cut[k + 1] - 1)]

\* SplitUnescaped splits at the borders, in their order.
LEMMA SplitIs ==
  ASSUME NEW S, NEW s \in Seq(S), NEW c
  PROVE  \E cut : IsCut(s, c, cut)
<1> DEFINE U == Unescaped(s, c)
           o == InOrder(s, U)
           f == <<0>> \o o
           cut == f \o <<Len(s) + 1>>
<1>0. Len(s) \in Nat /\ Len(s) + 1 \in Nat
  OBVIOUS
<1>1. U \subseteq 1 .. Len(s)
  BY MarksAre
<1>2. Ordered(o, U)
  BY <1>0, <1>1, InOrderIs
<1>3. Ordered(f, {0} \cup U)
  <2>1. \A p \in U : p > 0
    BY <1>0, <1>1
  <2> HIDE DEF U, o
  <2> QED BY <1>2, <2>1, OrderFirst
<1>4. f \in Seq(Nat) /\ cut = Append(f, Len(s) + 1) /\ Len(f) >= 1
  <2>1. o \in Seq(Nat)
    BY <1>2 DEF Ordered
  <2> HIDE DEF U, o
  <2> QED BY <1>0, <2>1
<1>5. Ordered(cut, ({0} \cup U) \cup {Len(s) + 1})
  <2>1. \A p \in {0} \cup U : p < Len(s) + 1
    BY <1>0, <1>1
  <2> HIDE DEF U, f, cut
  <2> QED BY <1>0, <1>3, <1>4, <2>1, OrderMore
<1>6. ({0} \cup U) \cup {Len(s) + 1} = Borders(s, c)
  BY MarksAre DEF Borders
<1>7. Len(cut) >= 2
  <2> HIDE DEF U, f
  <2> QED BY <1>0, <1>4
<1>8. SplitUnescaped(s, c) =
         [k \in 1 .. Len(cut) - 1 |-> SubSeq(s, cut[k] + 1, cut[k + 1] - 1)]
  BY DEF SplitUnescaped
<1>9. IsCut(s, c, cut)
  <2> HIDE DEF cut
  <2> QED BY <1>5, <1>6, <1>7, <1>8 DEF IsCut
<1> QED BY <1>9

\* The text between two borders.
SpanText(s, p) == SubSeq(s, p[1] + 1, p[2] - 1)

\* The raw options are the texts of the spans in their order.
SpansOf(s, raws, sp) ==
  /\ raws \in Seq({SpanText(s, p) : p \in Spans(s)})
  /\ \A i \in 1 .. Len(raws) : sp[i] \in Spans(s) /\ raws[i] = SpanText(s, sp[i])
  /\ \A p \in Spans(s) : \E i \in 1 .. Len(raws) : sp[i] = p
  /\ \A i, j \in 1 .. Len(raws) : i < j => sp[i][1] < sp[j][1]

\* No option is lost, made up or read twice.
LEMMA RawsAre ==
  ASSUME NEW S, NEW s \in Seq(S)
  PROVE  \E sp : SpansOf(s, Raws(s), sp)
<1> DEFINE B == Borders(s, SEPARATOR)
           n == Len(s)
           split == SplitUnescaped(s, SEPARATOR)
<1>1. PICK cut : /\ Ordered(cut, B) /\ Len(cut) >= 2
                 /\ split = [k \in 1 .. Len(cut) - 1 |-> SubSeq(s, cut[k] + 1, cut[k + 1] - 1)]
  <2>1. PICK cut : IsCut(s, SEPARATOR, cut)
    BY SplitIs
  <2> QED BY <2>1 DEF IsCut
<1> DEFINE m == Len(cut) - 1
           N == {k \in 1 .. m : cut[k + 1] > cut[k] + 1}
           o == InOrder(split, N)
           sp == [i \in 1 .. Len(o) |-> <<cut[o[i]], cut[o[i] + 1]>>]
<1>2. /\ n \in Nat /\ m \in Nat /\ cut \in Seq(Nat) /\ Len(cut) = m + 1
      /\ \A k \in 1 .. m + 1 : cut[k] \in B /\ cut[k] \in Nat /\ cut[k] <= n + 1
      /\ \A j, k \in 1 .. m + 1 : j < k => cut[j] < cut[k]
      /\ \A p \in B : \E k \in 1 .. m + 1 : cut[k] = p
      /\ B \subseteq Nat
  <2>1. n \in Nat
    OBVIOUS
  <2>2. Unescaped(s, SEPARATOR) \subseteq 1 .. n
    <3>1. Unescaped(s, SEPARATOR) = {i \in 1 .. n : s[i] = SEPARATOR /\ ~IsLiteral(s, i)}
      BY MarksAre
    <3> QED BY ONLY <3>1
  <2>3. B \subseteq 0 .. n + 1
    <3>1. B = {0, n + 1} \cup Unescaped(s, SEPARATOR)
      BY MarksAre DEF Borders
    <3> HIDE DEF B, n
    <3>2. ASSUME NEW x \in B PROVE x \in 0 .. n + 1
      <4>1. x = 0 \/ x = n + 1 \/ x \in 1 .. n
        BY <2>2, <3>1
      <4> QED BY ONLY <2>1, <4>1
    <3> QED BY <3>2
  <2>4. cut \in Seq(Nat)
    BY <1>1 DEF Ordered
  <2>5. m \in Nat /\ Len(cut) = m + 1
    <3> HIDE DEF B, split, n
    <3> QED BY <1>1, <2>4
  <2> HIDE DEF B, n, m, split
  <2>6. \A k \in 1 .. m + 1 : cut[k] \in B
    BY <1>1, <2>5 DEF Ordered
  <2>7. \A j, k \in 1 .. m + 1 : j < k => cut[j] < cut[k]
    BY <1>1, <2>5 DEF Ordered
  <2>8. \A p \in B : \E k \in 1 .. m + 1 : cut[k] = p
    BY <1>1, <2>5 DEF Ordered
  <2>9. B \subseteq Nat /\ \A x \in B : x <= n + 1
    BY <2>1, <2>3
  <2>10. \A k \in 1 .. m + 1 : cut[k] \in Nat /\ cut[k] <= n + 1
    BY <2>6, <2>9
  <2> QED BY <2>1, <2>4, <2>5, <2>6, <2>7, <2>8, <2>9, <2>10
<1>m. m \in Nat /\ \A k \in 1 .. m : k \in 1 .. m + 1 /\ k + 1 \in 1 .. m + 1 /\ k < k + 1
  <2>1. m \in Nat
    <3> HIDE DEF m
    <3> QED BY <1>2
  <2> HIDE DEF m
  <2> QED BY ONLY <2>1
<1>c. /\ \A k \in 1 .. m + 1 : cut[k] \in Nat
      /\ \A j, k \in 1 .. m + 1 : j < k => cut[j] < cut[k]
  <2> HIDE DEF m
  <2> QED BY <1>2
<1>3. /\ DOMAIN split = 1 .. m /\ Len(split) = m
      /\ \A k \in 1 .. m : /\ split[k] = SubSeq(s, cut[k] + 1, cut[k + 1] - 1)
                           /\ split[k] = <<>> <=> ~(cut[k + 1] > cut[k] + 1)
                           /\ k + 1 \in 1 .. m + 1
  <2>1. DOMAIN split = 1 .. m /\ \A k \in 1 .. m : split[k] = SubSeq(s, cut[k] + 1, cut[k + 1] - 1)
    <3> HIDE DEF B, split
    <3> QED BY <1>1
  <2>2. ASSUME NEW k \in 1 .. m
        PROVE  SubSeq(s, cut[k] + 1, cut[k + 1] - 1) = <<>> <=> ~(cut[k + 1] > cut[k] + 1)
    <3>1. /\ k \in 1 .. m + 1 /\ k + 1 \in 1 .. m + 1 /\ k < k + 1
      <4> HIDE DEF m
      <4> QED BY <1>m
    <3>2. /\ cut[k] \in Nat /\ cut[k + 1] \in Nat /\ cut[k] < cut[k + 1] /\ cut[k + 1] <= Len(s) + 1
      <4> HIDE DEF m, B
      <4> QED BY <1>2, <3>1
    <3>3. SubSeq(s, cut[k] + 1, cut[k + 1] - 1) = <<>> <=> cut[k + 1] = cut[k] + 1
      <4> HIDE DEF m, B, split
      <4>1. PICK u \in Nat, v \in Nat : u = cut[k] /\ v = cut[k + 1]
        BY <3>2
      <4>2. u < v /\ v <= Len(s) + 1
        BY <3>2, <4>1
      <4>3. SubSeq(s, u + 1, v - 1) = <<>> <=> v = u + 1
        <5>1. SubSeq(s, u + 1, v - 1) \in Seq(S) /\ Len(SubSeq(s, u + 1, v - 1)) = v - 1 - u
          BY ONLY s \in Seq(S), u \in Nat, v \in Nat, <4>2, PartIs
        <5>2. \A t \in Seq(S) : t = <<>> <=> Len(t) = 0
          OBVIOUS
        <5>3. SubSeq(s, u + 1, v - 1) = <<>> <=> v - 1 - u = 0
          BY ONLY <5>1, <5>2
        <5> QED BY ONLY u \in Nat, v \in Nat, <5>3
      <4> QED BY <4>1, <4>3
    <3> HIDE DEF m, B, split
    <3> QED BY <3>2, <3>3
  <2>3. Len(split) = m /\ \A k \in 1 .. m : k + 1 \in 1 .. m + 1
    <3> HIDE DEF m, B
    <3>1. Len(split) = m
      <4>1. split = [k \in 1 .. m |-> SubSeq(s, cut[k] + 1, cut[k + 1] - 1)]
        <5> HIDE DEF split, B
        <5> QED BY <1>1 DEF m
      <4> HIDE DEF m, split
      <4> QED BY ONLY <1>m, <4>1
    <3> QED BY <1>m, <3>1
  <2> HIDE DEF m, B, split
  <2> QED BY <2>1, <2>2, <2>3
<1>4. Ordered(o, N) /\ N = {k \in DOMAIN split : split[k] # <<>>}
  <2>1. N \subseteq 1 .. Len(split) /\ Len(split) \in Nat
    <3> HIDE DEF m, B, split
    <3> QED BY <1>2, <1>3
  <2>2. N = {k \in DOMAIN split : split[k] # <<>>}
    <3> HIDE DEF m, B, split
    <3> QED BY <1>3
  <2> HIDE DEF N, split
  <2> QED BY <2>1, <2>2, InOrderIs
<1>5. Raws(s) = [k \in DOMAIN o |-> split[o[k]]]
  <2>1. Raws(s) = At(split, {k \in DOMAIN split : split[k] # <<>>})
    BY DEF Raws
  <2>2. Raws(s) = At(split, N)
    <3> HIDE DEF N, split
    <3> QED BY <1>4, <2>1
  <2> HIDE DEF N, split
  <2> QED BY <2>2 DEF At
<1>6. /\ o \in Seq(Nat) /\ DOMAIN o = 1 .. Len(o) /\ Len(o) \in Nat
      /\ \A i \in 1 .. Len(o) : o[i] \in 1 .. m /\ cut[o[i] + 1] > cut[o[i]] + 1
      /\ \A i, j \in 1 .. Len(o) : i < j => o[i] < o[j]
      /\ \A k \in 1 .. m : cut[k + 1] > cut[k] + 1 => \E i \in 1 .. Len(o) : o[i] = k
  <2>1. \A k \in N : k \in 1 .. m /\ cut[k + 1] > cut[k] + 1
    OBVIOUS
  <2>2. \A k \in 1 .. m : cut[k + 1] > cut[k] + 1 => k \in N
    OBVIOUS
  <2> HIDE DEF N, o, m
  <2>3. Ordered(o, N)
    BY <1>4
  <2> QED BY <2>1, <2>2, <2>3 DEF Ordered
<1>7. ASSUME NEW k \in 1 .. m, cut[k + 1] > cut[k] + 1
      PROVE  <<cut[k], cut[k + 1]>> \in Spans(s)
  <2>1. k \in 1 .. m + 1 /\ k + 1 \in 1 .. m + 1 /\ cut[k] \in B /\ cut[k + 1] \in B
    <3> HIDE DEF m, B
    <3> QED BY <1>2
  <2>2. ASSUME NEW i \in B, cut[k] < i, i < cut[k + 1] PROVE FALSE
    <3> HIDE DEF m, B
    <3>1. PICK l \in 1 .. m + 1 : cut[l] = i
      BY <1>2
    <3>2. l < k \/ l = k \/ l = k + 1 \/ l > k + 1
      BY <1>m
    <3>3. cut[k] \in Nat /\ cut[k + 1] \in Nat /\ cut[l] \in Nat
      BY <1>c, <2>1
    <3>4. l < k => cut[l] < cut[k]
      BY <1>c, <2>1
    <3>5. l > k + 1 => cut[k + 1] < cut[l]
      BY <1>c, <2>1
    <3> QED BY ONLY <2>2, <3>1, <3>2, <3>3, <3>4, <3>5
  <2> DEFINE p == <<cut[k], cut[k + 1]>>
  <2>3. p \in B \X B /\ p[1] = cut[k] /\ p[2] = cut[k + 1]
    BY <2>1
  <2> HIDE DEF p, m
  <2>4. p \in Spans(s)
    BY <1>7, <2>2, <2>3 DEF Spans
  <2> QED BY <2>4 DEF p
<1>8. ASSUME NEW p \in Spans(s)
      PROVE  \E k \in 1 .. m : cut[k + 1] > cut[k] + 1 /\ p = <<cut[k], cut[k + 1]>>
  <2>1. /\ p[1] \in B /\ p[2] \in B /\ p = <<p[1], p[2]>> /\ p[2] > p[1] + 1
        /\ ~ \E i \in B : p[1] < i /\ i < p[2]
    <3> HIDE DEF m, split, n
    <3>1. /\ p \in B \X B /\ p[2] > p[1] + 1
          /\ ~ \E i \in B : p[1] < i /\ i < p[2]
      BY DEF Spans
    <3> HIDE DEF B
    <3> QED BY ONLY <3>1
  <2> HIDE DEF m, B
  <2>2. PICK k \in 1 .. m + 1, l \in 1 .. m + 1 : cut[k] = p[1] /\ cut[l] = p[2]
    BY <1>2, <2>1
  <2>3. k < l
    <3>1. k = l \/ l < k \/ k < l
      BY <1>m
    <3>2. l < k => cut[l] < cut[k]
      BY <1>c
    <3>3. cut[k] \in Nat /\ cut[l] \in Nat /\ cut[l] > cut[k] + 1
      BY <1>c, <2>1, <2>2
    <3> QED BY ONLY <3>1, <3>2, <3>3
  <2>4. k \in 1 .. m /\ k + 1 \in 1 .. m + 1 /\ k < k + 1 /\ cut[k] < cut[k + 1] /\ cut[k + 1] \in B
    BY <1>2, <2>3
  <2>5. ~(cut[k + 1] < cut[l])
    BY <2>1, <2>2, <2>4
  <2>6. l = k + 1
    BY <1>2, <2>3, <2>4, <2>5
  <2> QED BY <2>1, <2>2, <2>4, <2>6
<1> DEFINE raws == Raws(s)
<1>9. /\ DOMAIN raws = 1 .. Len(o) /\ Len(raws) = Len(o)
      /\ \A i \in 1 .. Len(o) : /\ raws[i] = SpanText(s, sp[i]) /\ sp[i] \in Spans(s)
                                /\ sp[i] = <<cut[o[i]], cut[o[i] + 1]>>
  <2>1. DOMAIN raws = 1 .. Len(o) /\ Len(raws) = Len(o) /\ \A i \in 1 .. Len(o) : raws[i] = split[o[i]]
    <3> HIDE DEF split, o
    <3> QED BY <1>5, <1>6
  <2>2. ASSUME NEW i \in 1 .. Len(o)
        PROVE  /\ raws[i] = SpanText(s, sp[i]) /\ sp[i] \in Spans(s)
               /\ sp[i] = <<cut[o[i]], cut[o[i] + 1]>>
    <3>1. PICK k \in 1 .. m : k = o[i] /\ cut[k + 1] > cut[k] + 1
      <4> HIDE DEF split, o, m
      <4> QED BY <1>6
    <3>2. sp[i] = <<cut[k], cut[k + 1]>>
      <4> HIDE DEF split, o, m
      <4> QED BY <3>1
    <3> HIDE DEF sp, o, m, B, split
    <3>3. sp[i] \in Spans(s)
      BY <1>7, <3>1, <3>2
    <3>4. raws[i] = SpanText(s, sp[i])
      <4>1. sp[i][1] = cut[k] /\ sp[i][2] = cut[k + 1]
        BY <3>2
      <4> QED BY <1>3, <2>1, <3>1, <4>1 DEF SpanText
    <3> QED BY <3>1, <3>2, <3>3, <3>4
  <2> QED BY <2>1, <2>2
<1>10. raws \in Seq({SpanText(s, p) : p \in Spans(s)})
  <2>1. raws = [i \in 1 .. Len(o) |-> raws[i]]
    <3> HIDE DEF split, o
    <3> QED BY <1>5, <1>6
  <2>2. \A i \in 1 .. Len(o) : raws[i] \in {SpanText(s, p) : p \in Spans(s)}
    <3> HIDE DEF raws, sp, o
    <3> QED BY <1>9
  <2> HIDE DEF raws, sp, o
  <2> QED BY <1>6, <2>1, <2>2
<1>11. ASSUME NEW i \in 1 .. Len(o), NEW j \in 1 .. Len(o), i < j
       PROVE  sp[i][1] < sp[j][1]
  <2>1. sp[i][1] = cut[o[i]] /\ sp[j][1] = cut[o[j]]
    <3> HIDE DEF o
    <3> QED OBVIOUS
  <2> HIDE DEF sp, o, m, B
  <2>2. o[i] \in 1 .. m + 1 /\ o[j] \in 1 .. m + 1 /\ o[i] < o[j]
    BY <1>m, <1>6, <1>11
  <2> QED BY <1>c, <2>1, <2>2
<1>12. ASSUME NEW p \in Spans(s) PROVE \E i \in 1 .. Len(o) : sp[i] = p
  <2> HIDE DEF sp, o, m, B
  <2>1. PICK k \in 1 .. m : cut[k + 1] > cut[k] + 1 /\ p = <<cut[k], cut[k + 1]>>
    BY <1>8
  <2>2. PICK i \in 1 .. Len(o) : o[i] = k
    BY <1>6, <2>1
  <2> QED BY <1>9, <2>1, <2>2
<1> HIDE DEF sp, o, m, raws
<1>13. SpansOf(s, raws, sp)
  BY <1>9, <1>10, <1>11, <1>12 DEF SpansOf
<1> QED BY <1>13 DEF raws

-----------------------------------------------------------------------------
(* The key and the value of an option.                                     *)

\* Min is the least.
LEMMA LeastIs ==
  ASSUME NEW T, T \subseteq Nat, T # {}
  PROVE  Min(T) \in T /\ \A y \in T : Min(T) <= y
<1>1. \E x \in T : \A y \in T : x <= y
  BY LeastNumber
<1> QED BY <1>1 DEF Min

\* What is known of a span.
IsSpan(s, p) ==
  /\ p[1] \in Nat /\ p[2] \in Nat /\ p[1] + 1 < p[2] /\ p[2] <= Len(s) + 1
  /\ ~IsLiteral(s, p[1] + 1)

\* What follows a border is not escaped by what stands before it.
LEMMA SpanIs ==
  ASSUME NEW S, NEW s \in Seq(S), NEW p \in Spans(s)
  PROVE  IsSpan(s, p)
<1> DEFINE n == Len(s)
           M == Marks(s, SEPARATOR)
<1>1. n \in Nat /\ M = {i \in 1 .. n : s[i] = SEPARATOR /\ ~IsLiteral(s, i)}
  <2>1. Marks(s, SEPARATOR) = {i \in 1 .. Len(s) : s[i] = SEPARATOR /\ ~IsLiteral(s, i)}
    BY MarksAre
  <2>2. n \in Nat
    OBVIOUS
  <2> QED BY <2>1, <2>2
<1>2. p[1] \in Borders(s, SEPARATOR) /\ p[2] \in Borders(s, SEPARATOR) /\ p[2] > p[1] + 1
  BY DEF Spans
<1>3. Borders(s, SEPARATOR) = {0, n + 1} \cup M
  BY DEF Borders
<1> HIDE DEF M, n
<1>4. \A x \in Borders(s, SEPARATOR) : x \in Nat /\ x <= n + 1 /\ (x = 0 \/ x = n + 1 \/ (x > 0 /\ s[x] = SEPARATOR))
  <2> SUFFICES ASSUME NEW x \in Borders(s, SEPARATOR)
               PROVE  x \in Nat /\ x <= n + 1 /\ (x = 0 \/ x = n + 1 \/ (x > 0 /\ s[x] = SEPARATOR))
    OBVIOUS
  <2>1. x = 0 \/ x = n + 1 \/ (x \in 1 .. n /\ s[x] = SEPARATOR)
    BY <1>1, <1>3
  <2>2. CASE x = 0
    BY ONLY <1>1, <2>2
  <2>3. CASE x = n + 1
    BY ONLY <1>1, <2>3
  <2>4. CASE x \in 1 .. n /\ s[x] = SEPARATOR
    <3>1. x \in Nat /\ x <= n + 1 /\ x > 0
      BY ONLY <1>1, <2>4
    <3> QED BY ONLY <2>4, <3>1
  <2> QED BY <2>1, <2>2, <2>3, <2>4
<1>6. p[1] \in Nat /\ p[2] \in Nat /\ p[1] + 1 < p[2] /\ p[2] <= n + 1 /\ p[1] # n + 1
  <2>1. p[1] \in Nat /\ p[2] \in Nat /\ p[2] <= n + 1
    BY <1>2, <1>4
  <2>2. p[2] > p[1] + 1
    BY <1>2
  <2> QED BY ONLY <1>1, <2>1, <2>2
<1>5. ~IsLiteral(s, p[1] + 1)
  <2>1. PICK x \in Nat : x = p[1]
    BY <1>2, <1>4
  <2>2. x = 0 \/ s[x] = SEPARATOR
    BY <1>2, <1>4, <1>6, <2>1
  <2>3. x + 1 \in Nat \ {0} /\ (x + 1) - 1 = x /\ (x = 0 => ~(x + 1 > 1))
    OBVIOUS
  <2>4. ~IsLiteral(s, x + 1)
    BY <2>2, <2>3, Signs, LiteralStep
  <2> QED BY <2>1, <2>4
<1> QED BY <1>5, <1>6 DEF IsSpan, n

\* What stands between two positions reads the same there and by itself.
LEMMA BetweenIs ==
  ASSUME NEW S, NEW s \in Seq(S), NEW t \in Seq(S), NEW p \in Nat, Lies(s, p, t),
         p + Len(t) <= Len(s), ~IsLiteral(s, p + 1), NEW q, q = p + Len(t) + 1
  PROVE  Unescape(t) = Between(s, p, q)
<1>1. Len(s) \in Nat /\ Len(t) \in Nat
  OBVIOUS
<1>2. Marks(s, BACKSLASH) = {i \in 1 .. Len(s) : s[i] = BACKSLASH /\ ~IsLiteral(s, i)}
  BY MarksAre
<1>3. Kept(s, p, q) = (p + 1 .. q - 1) \ Marks(s, BACKSLASH)
  <2>1. \A i \in p + 1 .. q - 1 : i \in 1 .. Len(s)
    BY <1>1
  <2> QED BY <1>2, <2>1 DEF Kept
<1>4. Unescape(t) = At(s, Kept(s, p, q))
  BY <1>1, PartUnescaped
<1> QED BY <1>3, <1>4 DEF Between

\* No text reads as no text.
LEMMA NothingBetween ==
  ASSUME NEW S, NEW s \in Seq(S), NEW p \in Nat
  PROVE  Unescape(<<>>) = <<>> /\ Between(s, p, p) = <<>>
<1>1. At(<<>>, {}) = <<>>
  <2>1. Ordered(InOrder(<<>>, {}), {})
    BY InOrderIs
  <2>2. InOrder(<<>>, {}) = <<>>
    <3> DEFINE o == InOrder(<<>>, {})
    <3>1. o \in Seq(Nat) /\ Len(o) \in Nat /\ ~ \E i \in 1 .. Len(o) : TRUE
      BY <2>1 DEF Ordered
    <3> HIDE DEF o
    <3>2. Len(o) = 0
      BY <3>1
    <3>3. o = <<>>
      BY <3>1, <3>2
    <3> QED BY <3>3 DEF o
  <2> QED BY <2>2 DEF At
<1>2. Unescape(<<>>) = At(<<>>, {})
  BY DEF Unescape
<1>3. Between(s, p, p) = At(s, {})
  <2>1. (p + 1 .. p - 1) \ Marks(s, BACKSLASH) = {}
    OBVIOUS
  <2> QED BY <2>1 DEF Between
<1>4. At(s, {}) = At(<<>>, {})
  <2>1. Moved(<<>>, {}, s, {}, 0)
    BY DEF Moved
  <2> QED BY <2>1, AtMoved
<1> QED BY <1>1, <1>2, <1>3, <1>4

\* An option is read as what stands in its span.
LEMMA SpanOption ==
  ASSUME NEW S, NEW s \in Seq(S), NEW p, IsSpan(s, p)
  PROVE  KeyOf(SpanText(s, p)) = KeyIn(s, p) /\ ValueOf(SpanText(s, p)) = ValueIn(s, p)
<1> DEFINE t == SpanText(s, p)
           n == Len(t)
<1>1. PICK x \in Nat, y \in Nat : x = p[1] /\ y = p[2] /\ x + 1 < y /\ y <= Len(s) + 1 /\ ~IsLiteral(s, x + 1)
  BY DEF IsSpan
<1>2. t \in Seq(S) /\ n = y - 1 - x /\ Lies(s, x, t) /\ Len(s) \in Nat
  <2>1. t = SubSeq(s, x + 1, y - 1) /\ x < y
    BY <1>1 DEF SpanText
  <2>2. /\ SubSeq(s, x + 1, y - 1) \in Seq(S)
        /\ Len(SubSeq(s, x + 1, y - 1)) = y - 1 - x
        /\ Lies(s, x, SubSeq(s, x + 1, y - 1))
    <3>1. x < y /\ y <= Len(s) + 1
      BY <1>1, <2>1
    <3> QED BY ONLY s \in Seq(S), x \in Nat, y \in Nat, <3>1, PartIs
  <2>3. Len(s) \in Nat
    OBVIOUS
  <2> HIDE DEF t
  <2> QED BY ONLY <2>1, <2>2, <2>3
<1> DEFINE E == Unescaped(t, "=")
           F == {i \in Marks(s, "=") : x < i /\ i < y}
<1> HIDE DEF t
<1>3. E = {j \in 1 .. n : s[x + j] = "=" /\ ~IsLiteral(s, x + j)}
  <2> HIDE DEF E
  <2> QED BY <1>1, <1>2, PartMarks DEF E
<1>4. F = {i \in x + 1 .. y - 1 : s[i] = "=" /\ ~IsLiteral(s, i)}
  <2>1. Marks(s, "=") = {i \in 1 .. Len(s) : s[i] = "=" /\ ~IsLiteral(s, i)}
    BY MarksAre
  <2>2. \A i \in 1 .. Len(s) : x < i /\ i < y <=> i \in x + 1 .. y - 1
    BY <1>1
  <2>3. \A i \in x + 1 .. y - 1 : i \in 1 .. Len(s)
    BY <1>1, <1>2
  <2> QED BY <2>1, <2>2, <2>3
<1>5. Equal(s, p) = Min({y} \cup F)
  BY <1>1 DEF Equal
<1>6. n \in Nat /\ n > 0 /\ x + n = y - 1
  <2> HIDE DEF n
  <2>1. n = y - 1 - x /\ x + 1 < y
    BY <1>1, <1>2
  <2> QED BY ONLY x \in Nat, y \in Nat, <2>1
<1>7. E \subseteq Nat /\ F \subseteq Nat /\ \A j \in 1 .. n : x + j \in x + 1 .. y - 1
  <2>1. \A j \in 1 .. n : x + j \in x + 1 .. y - 1
    <3> HIDE DEF n
    <3> QED BY <1>1, <1>6
  <2>2. E \subseteq Nat
    <3> HIDE DEF n, E
    <3> QED BY <1>3, <1>6
  <2>3. F \subseteq Nat
    <3> HIDE DEF F
    <3> QED BY <1>1, <1>4
  <2> QED BY <2>1, <2>2, <2>3
<1> HIDE DEF n, E, F
<1>8. \A i \in x + 1 .. y - 1 : i - x \in 1 .. n /\ x + (i - x) = i
  BY ONLY x \in Nat, y \in Nat, <1>6
<1>9. CASE E = {}
  <2>1. F = {}
    BY <1>3, <1>4, <1>8, <1>9
  <2>2. Equal(s, p) = y
    <3>1. {y} \cup F = {y}
      BY <2>1
    <3>2. Min({y}) = y
      <4>1. {y} \subseteq Nat /\ {y} # {}
        OBVIOUS
      <4>2. Min({y}) \in {y}
        BY ONLY <4>1, LeastIs
      <4> QED BY <4>2
    <3> QED BY <1>5, <3>1, <3>2
  <2>3. SplitFirstUnescaped(t, "=") = <<t, <<>>>>
    BY <1>9 DEF SplitFirstUnescaped, E
  <2>4. Unescape(t) = Between(s, x, y)
    <3>1. x + Len(t) <= Len(s) /\ y = x + Len(t) + 1
      BY <1>1, <1>2, <1>6 DEF n
    <3> QED BY <1>1, <1>2, <3>1, BetweenIs
  <2>5. Unescape(<<>>) = Between(s, y, y)
    BY NothingBetween
  <2>6. KeyOf(t) = Unescape(t) /\ ValueOf(t) = Unescape(<<>>)
    BY <2>3 DEF KeyOf, ValueOf
  <2> QED BY <1>1, <2>2, <2>4, <2>5, <2>6 DEF KeyIn, ValueIn, t
<1>10. CASE E # {}
  <2> DEFINE j == Min(E)
             u == SubSeq(t, 1, j - 1)
             v == SubSeq(t, j + 1, n)
  <2>1. j \in E /\ \A k \in E : j <= k
    BY <1>7, <1>10, LeastIs
  <2>2. j \in 1 .. n /\ s[x + j] = "=" /\ ~IsLiteral(s, x + j)
    BY <1>3, <2>1
  <2> HIDE DEF j
  <2>3. Equal(s, p) = x + j
    <3> DEFINE G == {y} \cup F
    <3>1. x + j \in F /\ \A i \in F : x + j <= i
      <4>1. x + j \in F
        BY <1>4, <1>7, <2>2
      <4>2. ASSUME NEW i \in F PROVE x + j <= i
        <5>1. i \in x + 1 .. y - 1 /\ s[i] = "=" /\ ~IsLiteral(s, i)
          BY <1>4
        <5>2. PICK k \in 1 .. n : x + k = i
          BY <1>8, <5>1
        <5>3. k \in E
          BY <1>3, <5>1, <5>2
        <5> QED BY <1>6, <2>1, <2>2, <5>2, <5>3
      <4> QED BY <4>1, <4>2
    <3>2. G \subseteq Nat /\ G # {} /\ x + j \in G /\ \A i \in G : x + j <= i
      BY <1>6, <1>7, <2>2, <3>1
    <3>3. Equal(s, p) = Min(G)
      BY <1>5
    <3> HIDE DEF G
    <3>4. Min(G) \in G /\ \A i \in G : Min(G) <= i
      BY <3>2, LeastIs
    <3>5. Min(G) \in Nat /\ x + j \in Nat /\ Min(G) <= x + j /\ x + j <= Min(G)
      BY <3>2, <3>4
    <3>6. Min(G) = x + j
      BY ONLY <3>5
    <3> QED BY <3>3, <3>6
  <2>4. SplitFirstUnescaped(t, "=") = <<u, v>>
    BY <1>10 DEF SplitFirstUnescaped, E, j, n
  <2>5. KeyOf(t) = Unescape(u) /\ ValueOf(t) = Unescape(v)
    <3> HIDE DEF u, v
    <3> QED BY <2>4 DEF KeyOf, ValueOf
  <2>6. j \in Nat /\ j > 0 /\ j < n + 1 /\ 0 + 1 = 1 /\ (n + 1) - 1 = n /\ n + 1 <= Len(t) + 1 /\ j <= Len(t) + 1
        /\ n + 1 \in Nat
    BY <1>6, <2>2 DEF n
  <2>7. u \in Seq(S) /\ Len(u) = j - 1 - 0 /\ Lies(t, 0, u)
    <3>1. u = SubSeq(t, 0 + 1, j - 1)
      BY <2>6
    <3>2. /\ SubSeq(t, 0 + 1, j - 1) \in Seq(S)
          /\ Len(SubSeq(t, 0 + 1, j - 1)) = j - 1 - 0
          /\ Lies(t, 0, SubSeq(t, 0 + 1, j - 1))
      BY <1>2, <2>6, PartIs
    <3> HIDE DEF u
    <3> QED BY ONLY <3>1, <3>2
  <2>8. v \in Seq(S) /\ Len(v) = (n + 1) - 1 - j /\ Lies(t, j, v)
    <3>1. v = SubSeq(t, j + 1, (n + 1) - 1)
      BY <2>6
    <3>2. /\ SubSeq(t, j + 1, (n + 1) - 1) \in Seq(S)
          /\ Len(SubSeq(t, j + 1, (n + 1) - 1)) = (n + 1) - 1 - j
          /\ Lies(t, j, SubSeq(t, j + 1, (n + 1) - 1))
      BY <1>2, <2>6, PartIs
    <3> HIDE DEF v
    <3> QED BY ONLY <3>1, <3>2
  <2> HIDE DEF u, v
  <2>9. Unescape(u) = Between(s, x, x + j)
    <3>1. Lies(s, x + 0, u)
      <4>1. 0 + Len(u) <= Len(t)
        BY <1>6, <2>6, <2>7 DEF n
      <4> QED BY <1>2, <2>7, <4>1, LiesWithin
    <3>2. x + 0 = x /\ x + Len(u) <= Len(s) /\ x + j = x + Len(u) + 1
      <4>1. Len(u) = j - 1 /\ j <= n /\ j \in Nat /\ y <= Len(s) + 1 /\ Len(s) \in Nat
        BY <1>1, <1>2, <2>2, <2>6, <2>7
      <4> QED BY ONLY <1>6, <4>1, x \in Nat, y \in Nat
    <3> QED BY <1>1, <2>7, <3>1, <3>2, BetweenIs
  <2>10. Unescape(v) = Between(s, x + j, y)
    <3>1. Lies(s, x + j, v)
      <4>1. j + Len(v) <= Len(t)
        BY <1>6, <2>6, <2>8 DEF n
      <4> QED BY <1>2, <2>6, <2>8, <4>1, LiesWithin
    <3>2. (x + j) + Len(v) <= Len(s) /\ y = (x + j) + Len(v) + 1 /\ x + j \in Nat
      <4>1. Len(v) = n - j /\ j <= n /\ j \in Nat /\ y <= Len(s) + 1 /\ Len(s) \in Nat
        BY <1>1, <1>2, <1>6, <2>2, <2>6, <2>8
      <4> QED BY ONLY <1>6, <4>1, x \in Nat, y \in Nat
    <3>3. ~IsLiteral(s, (x + j) + 1)
      <4>1. (x + j) + 1 \in Nat \ {0} /\ ((x + j) + 1) - 1 = x + j
        BY <1>6, <2>6
      <4> QED BY <2>2, <4>1, Signs, LiteralStep
    <3> QED BY <2>8, <3>1, <3>2, <3>3, BetweenIs
  <2> QED BY <1>1, <2>3, <2>5, <2>9, <2>10 DEF KeyIn, ValueIn, t
<1> QED BY <1>9, <1>10

-----------------------------------------------------------------------------
(* Parse reads what the format means.                                      *)

\* Max is the largest.
LEMMA LargestIs ==
  ASSUME NEW n \in Nat, NEW T, T \subseteq 1 .. n, T # {}
  PROVE  Max(T) \in T /\ \A y \in T : y <= Max(T)
<1> DEFINE D == {k \in Nat : k <= n /\ n - k \in T}
<1>1. PICK y \in T : TRUE
  OBVIOUS
<1>2. n - y \in D
  OBVIOUS
<1>3. PICK k \in D : \A i \in D : k <= i
  <2>1. D \subseteq Nat
    OBVIOUS
  <2> HIDE DEF D
  <2> QED BY <1>2, <2>1, LeastNumber
<1>4. ASSUME NEW z \in T PROVE z <= n - k
  <2>1. n - z \in D /\ z \in 1 .. n /\ k \in Nat
    OBVIOUS
  <2>2. k <= n - z
    <3> HIDE DEF D
    <3> QED BY <1>3, <2>1
  <2> QED BY <2>1, <2>2
<1>5. n - k \in T
  BY <1>3
<1>6. \E x \in T : \A z \in T : x >= z
  <2>1. \A z \in T : z \in Nat /\ n - k \in Nat
    BY <1>3
  <2>2. \A z \in T : n - k >= z
    <3> HIDE DEF D
    <3> QED BY <1>4, <2>1
  <2> QED BY <1>5, <2>2
<1>7. Max(T) \in T /\ \A z \in T : Max(T) >= z
  <2> HIDE DEF D
  <2> QED BY <1>6 DEF Max
<1>8. \A a, b \in Nat : a >= b => b <= a
  OBVIOUS
<1>9. \A z \in T : z \in Nat
  OBVIOUS
<1> HIDE DEF D
<1> QED BY <1>7, <1>8, <1>9

\* What the scanners read is what the format means.
LEMMA ReadAsMeant ==
  ASSUME NEW S, NEW s \in Seq(S)
  PROVE  Parse(s).ok = Meaning(s).ok /\ Parse(s).map = Meaning(s).map
<1> DEFINE raws == Raws(s)
           n == Len(raws)
           T(k) == {i \in 1 .. n : KeyOf(raws[i]) = k}
           K == {KeyOf(raws[i]) : i \in 1 .. n}
<1>1. PICK sp : SpansOf(s, raws, sp)
  <2> HIDE DEF raws
  <2> QED BY RawsAre DEF raws
<1>2. /\ n \in Nat /\ DOMAIN raws = 1 .. n
      /\ \A i \in 1 .. n : sp[i] \in Spans(s) /\ raws[i] = SpanText(s, sp[i])
      /\ \A p \in Spans(s) : \E i \in 1 .. n : sp[i] = p
      /\ \A i, j \in 1 .. n : i < j => sp[i][1] < sp[j][1]
  <2> HIDE DEF raws
  <2>1. raws \in Seq({SpanText(s, p) : p \in Spans(s)})
    BY <1>1 DEF SpansOf
  <2> QED BY <1>1, <2>1 DEF SpansOf
<1>3. ASSUME NEW i \in 1 .. n
      PROVE  /\ KeyOf(raws[i]) = KeyIn(s, sp[i]) /\ ValueOf(raws[i]) = ValueIn(s, sp[i])
             /\ sp[i][1] \in Nat
  <2>1. sp[i] \in Spans(s) /\ raws[i] = SpanText(s, sp[i])
    <3> HIDE DEF raws, n
    <3> QED BY <1>2
  <2>2. IsSpan(s, sp[i])
    <3> HIDE DEF raws, n
    <3> QED BY <2>1, SpanIs
  <2> HIDE DEF raws, n
  <2>3. KeyOf(SpanText(s, sp[i])) = KeyIn(s, sp[i]) /\ ValueOf(SpanText(s, sp[i])) = ValueIn(s, sp[i])
    BY <2>2, SpanOption
  <2> QED BY <2>1, <2>2, <2>3 DEF IsSpan
<1>4. Parse(s) = [ok |-> \A i \in DOMAIN raws : KeyOf(raws[i]) # <<>>,
                  map |-> [k \in {KeyOf(raws[i]) : i \in DOMAIN raws} |->
                             ValueOf(raws[Max({i \in DOMAIN raws : KeyOf(raws[i]) = k})])]]
  BY DEF Parse
<1> HIDE DEF raws, n
<1>5. K = {KeyIn(s, p) : p \in Spans(s)}
  <2>1. ASSUME NEW k \in K PROVE k \in {KeyIn(s, p) : p \in Spans(s)}
    BY <1>2, <1>3
  <2>2. ASSUME NEW p \in Spans(s) PROVE KeyIn(s, p) \in K
    BY <1>2, <1>3
  <2> QED BY <2>1, <2>2
<1>6. ASSUME NEW k \in K PROVE ValueOf(raws[Max(T(k))]) = ValueIn(s, LastOf(s, k))
  <2> DEFINE m == Max(T(k))
             IsLast(p) == p \in Spans(s) /\ KeyIn(s, p) = k /\
                          \A q \in Spans(s) : KeyIn(s, q) = k => q[1] <= p[1]
  <2>1. m \in 1 .. n /\ KeyOf(raws[m]) = k /\ \A j \in 1 .. n : KeyOf(raws[j]) = k => j <= m
    <3>1. T(k) \subseteq 1 .. n /\ T(k) # {}
      OBVIOUS
    <3>2. m \in T(k) /\ \A j \in T(k) : j <= m
      <4> HIDE DEF T, K
      <4> QED BY <1>2, <3>1, LargestIs
    <3> HIDE DEF m
    <3> QED BY <3>2
  <2> HIDE DEF m, T, K
  <2>2. ASSUME NEW q \in Spans(s), KeyIn(s, q) = k
        PROVE  \E j \in 1 .. n : q = sp[j] /\ j <= m /\ (j = m \/ q[1] < sp[m][1])
    <3>1. PICK j \in 1 .. n : q = sp[j]
      BY <1>2
    <3>2. j <= m /\ (j = m \/ j < m)
      BY <1>2, <1>3, <2>1, <2>2, <3>1
    <3> QED BY <1>2, <2>1, <3>1, <3>2
  <2>3. IsLast(sp[m])
    <3>1. sp[m] \in Spans(s) /\ KeyIn(s, sp[m]) = k
      BY <1>2, <1>3, <2>1
    <3>2. ASSUME NEW q \in Spans(s), KeyIn(s, q) = k PROVE q[1] <= sp[m][1]
      <4>1. PICK j \in 1 .. n : q = sp[j] /\ j <= m /\ (j = m \/ q[1] < sp[m][1])
        BY <2>2, <3>2
      <4>2. q[1] \in Nat /\ sp[m][1] \in Nat
        BY <1>3, <2>1, <4>1
      <4>3. j = m => q[1] = sp[m][1]
        BY <4>1
      <4> QED BY <4>1, <4>2, <4>3
    <3> QED BY <3>1, <3>2
  <2>4. ASSUME NEW p, IsLast(p) PROVE p = sp[m]
    <3>1. PICK j \in 1 .. n : p = sp[j] /\ j <= m /\ (j = m \/ p[1] < sp[m][1])
      BY <2>2, <2>4
    <3>2. sp[m][1] <= p[1] /\ sp[m][1] \in Nat /\ p[1] \in Nat
      BY <1>2, <1>3, <2>1, <2>3, <2>4, <3>1
    <3> QED BY <3>1, <3>2
  <2>5. LastOf(s, k) = CHOOSE p : IsLast(p)
    BY DEF LastOf
  <2>6. LastOf(s, k) = sp[m]
    <3> HIDE DEF IsLast
    <3> QED BY <2>3, <2>4, <2>5
  <2>7. ValueOf(raws[m]) = ValueIn(s, sp[m])
    BY <1>3, <2>1
  <2> QED BY <2>6, <2>7 DEF m
<1>7. Parse(s).map = [k \in K |-> ValueOf(raws[Max(T(k))])]
  BY <1>2, <1>4
<1>8. Meaning(s).map = [k \in K |-> ValueIn(s, LastOf(s, k))]
  BY <1>5 DEF Meaning
<1>9. Parse(s).map = Meaning(s).map
  <2> HIDE DEF K, T
  <2> QED BY <1>6, <1>7, <1>8
<1>10. Parse(s).ok = Meaning(s).ok
  <2>1. (\A i \in 1 .. n : KeyOf(raws[i]) # <<>>) <=> (\A p \in Spans(s) : KeyIn(s, p) # <<>>)
    BY <1>2, <1>3
  <2>2. Parse(s).ok = (\A i \in 1 .. n : KeyOf(raws[i]) # <<>>)
    BY <1>2, <1>4
  <2>3. Meaning(s).ok = (\A p \in Spans(s) : KeyIn(s, p) # <<>>)
    BY DEF Meaning
  <2> QED BY <2>1, <2>2, <2>3
<1> QED BY <1>9, <1>10

-----------------------------------------------------------------------------
(* Options put behind each other with separators.                          *)

\* An option that separators can be put around.
IsItem(S, o) ==
  /\ o \in Seq(S) /\ o # <<>>
  /\ Marks(o, SEPARATOR) = {} /\ ~IsLiteral(o, Len(o) + 1)

\* w is the items of q with separators between them, and perhaps one at the end;
\* the i-th item ends before c[i].
Lists(S, w, q, c) ==
  /\ w \in Seq(S) /\ q \in Seq(Seq(S)) /\ c \in [0 .. Len(q) -> Nat] /\ c[0] = 0
  /\ \A i \in 1 .. Len(q) :
       /\ IsItem(S, q[i]) /\ c[i] = c[i - 1] + Len(q[i]) + 1 /\ Lies(w, c[i - 1], q[i])
       /\ c[i] <= Len(w) + 1 /\ (c[i] <= Len(w) => w[c[i]] = SEPARATOR)
  /\ Len(w) = c[Len(q)] \/ Len(w) + 1 = c[Len(q)]

\* Between two values of a growing c.
LEMMA Located ==
  ASSUME NEW n \in Nat, NEW c \in [0 .. n -> Nat], NEW x \in Nat, c[0] < x, x <= c[n]
  PROVE  \E i \in 1 .. n : c[i - 1] < x /\ x <= c[i]
<1> DEFINE D == {i \in 0 .. n : x <= c[i]}
<1>1. n \in D /\ D \subseteq Nat
  OBVIOUS
<1>2. PICK i \in D : \A j \in D : i <= j
  <2> HIDE DEF D
  <2> QED BY <1>1, LeastNumber
<1>3. i \in 1 .. n /\ i - 1 \in 0 .. n /\ x <= c[i]
  BY <1>1
<1>4. ~(i - 1 \in D)
  <2> HIDE DEF D
  <2> QED BY <1>2, <1>3
<1>5. c[i - 1] < x
  <2>1. ~(x <= c[i - 1]) /\ c[i - 1] \in Nat
    BY <1>3, <1>4
  <2> QED BY <2>1
<1> QED BY <1>3, <1>5

\* The borders of such a text are the separators between its options, and its ends.
LEMMA ListsBorders ==
  ASSUME NEW S, NEW w, NEW q, NEW c, Lists(S, w, q, c)
  PROVE  /\ Borders(w, SEPARATOR) = {c[i] : i \in 0 .. Len(q)} \cup {Len(w) + 1}
         /\ \A i \in 1 .. Len(q) : ~IsLiteral(w, c[i - 1] + 1)
<1> DEFINE m == Len(q)
           n == Len(w)
<1>1. /\ w \in Seq(S) /\ q \in Seq(Seq(S)) /\ c \in [0 .. m -> Nat] /\ c[0] = 0
      /\ n = c[m] \/ n + 1 = c[m]
  BY DEF Lists
<1>2. m \in Nat /\ n \in Nat
  BY <1>1
<1> HIDE DEF m, n
<1>3. ASSUME NEW i \in 1 .. m
      PROVE  /\ q[i] \in Seq(S) /\ Len(q[i]) \in Nat /\ Len(q[i]) > 0
             /\ Marks(q[i], SEPARATOR) = {} /\ ~IsLiteral(q[i], Len(q[i]) + 1)
             /\ c[i] = c[i - 1] + Len(q[i]) + 1 /\ Lies(w, c[i - 1], q[i])
             /\ c[i] <= n + 1 /\ (c[i] <= n => w[c[i]] = SEPARATOR)
             /\ i - 1 \in 0 .. m /\ i \in 0 .. m /\ c[i] \in Nat /\ c[i - 1] \in Nat
  <2>1. IsItem(S, q[i]) /\ c[i] = c[i - 1] + Len(q[i]) + 1 /\ Lies(w, c[i - 1], q[i])
        /\ c[i] <= n + 1 /\ (c[i] <= n => w[c[i]] = SEPARATOR)
    BY DEF Lists, m, n
  <2>2. q[i] \in Seq(S) /\ q[i] # <<>> /\ Marks(q[i], SEPARATOR) = {} /\ ~IsLiteral(q[i], Len(q[i]) + 1)
    BY <2>1 DEF IsItem
  <2>3. Len(q[i]) \in Nat /\ Len(q[i]) > 0
    BY <2>2
  <2>4. i - 1 \in 0 .. m /\ i \in 0 .. m
    BY <1>2
  <2>5. c[i] \in Nat /\ c[i - 1] \in Nat
    BY <1>1, <2>4
  <2> QED BY <2>1, <2>2, <2>3, <2>4, <2>5
<1>4. ASSUME NEW i \in 1 .. m PROVE ~IsLiteral(w, c[i - 1] + 1)
  <2>1. PICK x \in Nat : x = c[i - 1]
    BY <1>3
  <2>2. x = 0 \/ w[x] = SEPARATOR
    <3>1. CASE i = 1
      <4>1. i - 1 = 0
        BY <3>1
      <4> QED BY <1>1, <2>1, <4>1
    <3>2. CASE i # 1
      <4>1. i - 1 \in 1 .. m
        BY <1>2, <3>2
      <4>2. x < c[i] /\ c[i] <= n + 1 /\ c[i] \in Nat
        <5>1. /\ c[i] = x + Len(q[i]) + 1 /\ Len(q[i]) \in Nat
              /\ c[i] <= n + 1 /\ c[i] \in Nat
          BY <1>3, <2>1
        <5> QED BY ONLY x \in Nat, <5>1
      <4>3. x <= n
        BY ONLY <1>2, <4>2, x \in Nat
      <4> QED BY <1>3, <2>1, <4>1, <4>3
    <3> QED BY <3>1, <3>2
  <2>3. x + 1 \in Nat \ {0} /\ (x + 1) - 1 = x /\ (x = 0 => ~(x + 1 > 1))
    OBVIOUS
  <2>4. ~IsLiteral(w, x + 1)
    BY <2>2, <2>3, Signs, LiteralStep
  <2> QED BY <2>1, <2>4
<1>5. Marks(w, SEPARATOR) = {x \in 1 .. n : w[x] = SEPARATOR /\ ~IsLiteral(w, x)}
  BY <1>1, MarksAre DEF n
<1>6. ASSUME NEW i \in 1 .. m, NEW j \in 1 .. Len(q[i]) + 1
      PROVE  IsLiteral(q[i], j) <=> IsLiteral(w, c[i - 1] + j)
  BY <1>3, <1>4, PartLiteral
<1>7. ASSUME NEW i \in 1 .. m, c[i] <= n PROVE c[i] \in Marks(w, SEPARATOR)
  <2>1. Len(q[i]) + 1 \in 1 .. Len(q[i]) + 1 /\ c[i] = c[i - 1] + (Len(q[i]) + 1) /\ c[i] \in 1 .. n
    BY <1>2, <1>3, <1>7
  <2>2. ~IsLiteral(w, c[i])
    <3>1. IsLiteral(q[i], Len(q[i]) + 1) <=> IsLiteral(w, c[i - 1] + (Len(q[i]) + 1))
      BY <1>6, <2>1
    <3> QED BY <1>3, <2>1, <3>1
  <2> QED BY <1>3, <1>5, <1>7, <2>1, <2>2
<1>8. ASSUME NEW x \in Marks(w, SEPARATOR) PROVE \E i \in 1 .. m : x = c[i]
  <2>1. x \in 1 .. n /\ w[x] = SEPARATOR /\ ~IsLiteral(w, x)
    BY <1>5
  <2>2. x \in Nat /\ c[0] < x /\ x <= c[m]
    <3>1. m \in 0 .. m /\ c[m] \in Nat
      BY <1>1, <1>2
    <3> QED BY <1>1, <1>2, <2>1, <3>1
  <2>3. PICK i \in 1 .. m : c[i - 1] < x /\ x <= c[i]
    BY <1>1, <1>2, <2>2, Located
  <2>4. SUFFICES ASSUME x # c[i] PROVE FALSE
    OBVIOUS
  <2>5. PICK j \in 1 .. Len(q[i]) : x = c[i - 1] + j
    <3>1. x - c[i - 1] \in 1 .. Len(q[i]) /\ x = c[i - 1] + (x - c[i - 1])
      BY <1>3, <2>2, <2>3, <2>4
    <3> QED BY <3>1
  <2>6. j \in 1 .. Len(q[i]) + 1 /\ q[i][j] = w[x]
    BY <1>3, <2>5 DEF Lies
  <2>7. ~IsLiteral(q[i], j)
    BY <1>6, <2>1, <2>5, <2>6
  <2>8. Marks(q[i], SEPARATOR) = {k \in 1 .. Len(q[i]) : q[i][k] = SEPARATOR /\ ~IsLiteral(q[i], k)}
    BY <1>3, MarksAre
  <2> QED BY <1>3, <2>1, <2>5, <2>6, <2>7, <2>8
<1>9. ASSUME NEW x \in Borders(w, SEPARATOR) PROVE x \in {c[i] : i \in 0 .. m} \cup {n + 1}
  <2>1. x = 0 \/ x = n + 1 \/ x \in Marks(w, SEPARATOR)
    BY DEF Borders, n
  <2>2. CASE x \in Marks(w, SEPARATOR)
    BY <1>3, <1>8, <2>2
  <2>3. 0 \in 0 .. m
    BY <1>2
  <2> QED BY <1>1, <2>1, <2>2, <2>3
<1>10. ASSUME NEW i \in 0 .. m PROVE c[i] \in Borders(w, SEPARATOR)
  <2>1. CASE i = 0
    BY <1>1, <2>1 DEF Borders
  <2>2. CASE i # 0
    <3>1. i \in 1 .. m
      BY <1>2, <2>2
    <3>2. c[i] <= n \/ c[i] = n + 1
      BY <1>2, <1>3, <3>1
    <3> QED BY <1>7, <3>1, <3>2 DEF Borders, n
  <2> QED BY <2>1, <2>2
<1>11. n + 1 \in Borders(w, SEPARATOR)
  BY DEF Borders, n
<1>12. Borders(w, SEPARATOR) = {c[i] : i \in 0 .. m} \cup {n + 1}
  BY <1>9, <1>10, <1>11
<1> QED BY <1>4, <1>12 DEF m, n

\* What grows with each step is greater further on.
LEMMA Climbs ==
  ASSUME NEW n \in Nat, NEW c \in [0 .. n -> Nat], \A i \in 1 .. n : c[i - 1] < c[i]
  PROVE  \A i, j \in 0 .. n : i < j => c[i] < c[j]
<1> DEFINE T == {k \in Nat : k <= n => \A i \in 0 .. n : i < k => c[i] < c[k]}
<1>1. 0 \in T
  OBVIOUS
<1>2. ASSUME NEW k \in T PROVE k + 1 \in T
  <2>1. SUFFICES ASSUME k + 1 <= n, NEW i \in 0 .. n, i < k + 1 PROVE c[i] < c[k + 1]
    OBVIOUS
  <2>2. k \in Nat /\ k <= n /\ k + 1 \in 1 .. n /\ (k + 1) - 1 = k /\ (i = k \/ i < k)
    BY <2>1
  <2>3. c[i] <= c[k]
    <3>1. CASE i = k
      BY <2>2, <3>1
    <3>2. CASE i < k
      BY <2>2, <3>2
    <3> QED BY <2>2, <3>1, <3>2
  <2>4. c[k] < c[k + 1] /\ c[k] \in Nat /\ c[k + 1] \in Nat /\ c[i] \in Nat
    BY <2>2
  <2> QED BY <2>3, <2>4
<1>3. T = Nat
  <2>1. T \subseteq Nat /\ \A k \in T : k + 1 \in T
    BY <1>2
  <2> HIDE DEF T
  <2> QED BY <1>1, <2>1, NumberInduction
<1>4. \A k \in 0 .. n : k \in T
  <2> HIDE DEF T
  <2> QED BY <1>3
<1> QED BY <1>4

\* The options between the separators are read one by one.
LEMMA ListsRaws ==
  ASSUME NEW S, NEW w, NEW q, NEW c, Lists(S, w, q, c)
  PROVE  Raws(w) = q
<1> DEFINE m == Len(q)
           n == Len(w)
           raws == Raws(w)
<1>1. /\ w \in Seq(S) /\ q \in Seq(Seq(S)) /\ c \in [0 .. m -> Nat] /\ c[0] = 0
      /\ n = c[m] \/ n + 1 = c[m]
  BY DEF Lists
<1>2. m \in Nat /\ n \in Nat
  BY <1>1
<1>0. q = [i \in 1 .. m |-> q[i]]
  BY <1>1
<1> HIDE DEF m, n
<1>3. ASSUME NEW i \in 1 .. m
      PROVE  /\ q[i] \in Seq(S) /\ Len(q[i]) \in Nat /\ Len(q[i]) > 0
             /\ c[i] = c[i - 1] + Len(q[i]) + 1 /\ Lies(w, c[i - 1], q[i])
             /\ c[i] <= n + 1
             /\ i - 1 \in 0 .. m /\ i \in 0 .. m /\ c[i] \in Nat /\ c[i - 1] \in Nat
  <2>1. IsItem(S, q[i]) /\ c[i] = c[i - 1] + Len(q[i]) + 1 /\ Lies(w, c[i - 1], q[i])
        /\ c[i] <= n + 1
    BY DEF Lists, m, n
  <2>2. q[i] \in Seq(S) /\ q[i] # <<>>
    BY <2>1 DEF IsItem
  <2>3. Len(q[i]) \in Nat /\ Len(q[i]) > 0
    BY <2>2
  <2>4. i - 1 \in 0 .. m /\ i \in 0 .. m
    BY <1>2
  <2>5. c[i] \in Nat /\ c[i - 1] \in Nat
    BY <1>1, <2>4
  <2> QED BY <2>1, <2>2, <2>3, <2>4, <2>5
<1>4. \A i, j \in 0 .. m : i < j => c[i] < c[j]
  <2>1. \A i \in 1 .. m : c[i - 1] < c[i]
    BY <1>3
  <2> QED BY <1>1, <1>2, <2>1, Climbs
<1> DEFINE B == Borders(w, SEPARATOR)
<1>5. B = {c[i] : i \in 0 .. m} \cup {n + 1}
  BY ListsBorders DEF m, n
<1>6. Spans(w) = {p \in B \X B : p[2] > p[1] + 1 /\ ~ \E i \in B : p[1] < i /\ i < p[2]}
  BY DEF Spans
<1> HIDE DEF B
<1>7. ASSUME NEW i \in 1 .. m, NEW x \in B, c[i - 1] < x, x < c[i] PROVE FALSE
  <2>1. x \in Nat
    BY <1>1, <1>2, <1>5
  <2>2. CASE x = n + 1
    BY <1>2, <1>3, <1>7, <2>2
  <2>3. CASE x # n + 1
    <3>1. PICK j \in 0 .. m : x = c[j]
      BY <1>5, <2>3
    <3>2. i - 1 < j
      <4>1. CASE j = i - 1
        BY <1>3, <1>7, <3>1, <4>1
      <4>2. CASE j < i - 1
        <5>1. c[j] < c[i - 1]
          BY <1>3, <1>4, <4>2
        <5> QED BY <1>3, <1>7, <2>1, <3>1, <5>1
      <4> QED BY <1>2, <4>1, <4>2
    <3>3. j < i
      <4>1. CASE j = i
        BY <1>3, <1>7, <3>1, <4>1
      <4>2. CASE i < j
        <5>1. c[i] < c[j]
          BY <1>3, <1>4, <4>2
        <5> QED BY <1>3, <1>7, <2>1, <3>1, <5>1
      <4> QED BY <1>2, <4>1, <4>2
    <3> QED BY <1>2, <3>2, <3>3
  <2> QED BY <2>2, <2>3
<1>8. ASSUME NEW i \in 1 .. m PROVE <<c[i - 1], c[i]>> \in Spans(w)
  <2>1. c[i - 1] \in B /\ c[i] \in B
    BY <1>3, <1>5
  <2>2. c[i] > c[i - 1] + 1
    BY <1>3
  <2> QED BY <1>6, <1>7, <2>1, <2>2
<1>9. ASSUME NEW p \in Spans(w) PROVE \E i \in 1 .. m : p = <<c[i - 1], c[i]>>
  <2>1. p = <<p[1], p[2]>> /\ p[1] \in B /\ p[2] \in B /\ ~ \E i \in B : p[1] < i /\ i < p[2]
    BY <1>6
  <2>2. p[1] \in Nat /\ p[2] \in Nat /\ p[1] + 1 < p[2] /\ p[2] <= n + 1
    BY <1>1, SpanIs DEF IsSpan, n
  <2>3. PICK j \in 0 .. m : p[1] = c[j]
    BY <1>2, <1>5, <2>1, <2>2
  <2>4. j + 1 \in 1 .. m /\ (j + 1) - 1 = j
    <3>1. j # m
      BY <1>1, <1>2, <2>2, <2>3
    <3> QED BY <1>2, <3>1
  <2> DEFINE i == j + 1
  <2>5. i \in 1 .. m /\ c[i - 1] = p[1]
    BY <2>3, <2>4
  <2> HIDE DEF i
  <2>6. c[i] \in B /\ c[i] \in Nat /\ p[1] < c[i]
    BY <1>3, <1>5, <2>5
  <2>7. ~(c[i] < p[2])
    BY <2>1, <2>6
  <2>8. ~(p[2] < c[i])
    <3>1. p[1] < p[2]
      BY <2>2
    <3> QED BY <1>7, <2>1, <2>5, <3>1
  <2>9. c[i] = p[2]
    BY <2>2, <2>6, <2>7, <2>8
  <2> QED BY <2>1, <2>5, <2>9
<1>10. PICK sp : SpansOf(w, raws, sp)
  <2> HIDE DEF raws
  <2> QED BY <1>1, RawsAre DEF raws
<1> HIDE DEF raws
<1> DEFINE r == Len(raws)
<1>11. /\ r \in Nat /\ raws = [i \in 1 .. r |-> raws[i]]
       /\ \A i \in 1 .. r : sp[i] \in Spans(w) /\ raws[i] = SpanText(w, sp[i])
       /\ \A p \in Spans(w) : \E i \in 1 .. r : sp[i] = p
       /\ \A i, j \in 1 .. r : i < j => sp[i][1] < sp[j][1]
  <2>1. raws \in Seq({SpanText(w, p) : p \in Spans(w)})
    BY <1>10 DEF SpansOf
  <2> QED BY <1>10, <2>1 DEF SpansOf
<1> HIDE DEF r
<1> DEFINE P == {c[i - 1] : i \in 1 .. m}
           a == [i \in 1 .. r |-> sp[i][1]]
           b == [i \in 1 .. m |-> c[i - 1]]
<1>12. ASSUME NEW i \in 1 .. r PROVE \E k \in 1 .. m : sp[i] = <<c[k - 1], c[k]>> /\ sp[i][1] = c[k - 1]
  <2>1. PICK k \in 1 .. m : sp[i] = <<c[k - 1], c[k]>>
    BY <1>9, <1>11
  <2> QED BY <2>1
<1>13. Ordered(a, P)
  <2>1. a \in Seq(Nat) /\ Len(a) = r /\ \A i \in 1 .. r : a[i] = sp[i][1]
    <3>1. \A i \in 1 .. r : sp[i][1] \in Nat
      BY <1>3, <1>12
    <3>2. a \in [1 .. r -> Nat]
      BY <3>1
    <3> QED BY <1>11, <3>2
  <2> HIDE DEF a
  <2>2. \A i \in 1 .. r : a[i] \in P
    BY <1>12, <2>1
  <2>3. ASSUME NEW p \in P PROVE \E i \in 1 .. r : a[i] = p
    <3>1. PICK k \in 1 .. m : p = c[k - 1]
      OBVIOUS
    <3>2. PICK i \in 1 .. r : sp[i] = <<c[k - 1], c[k]>>
      BY <1>8, <1>11
    <3>3. sp[i][1] = c[k - 1]
      BY <3>2
    <3> QED BY <2>1, <3>1, <3>3
  <2>4. \A i, j \in 1 .. r : i < j => a[i] < a[j]
    BY <1>11, <2>1
  <2> HIDE DEF P
  <2> QED BY ONLY <2>1, <2>2, <2>3, <2>4 DEF Ordered
<1>14. Ordered(b, P)
  <2>1. b \in Seq(Nat) /\ Len(b) = m /\ \A i \in 1 .. m : b[i] = c[i - 1]
    <3>1. b \in [1 .. m -> Nat]
      BY <1>3
    <3> QED BY <1>2, <3>1
  <2> HIDE DEF b
  <2>2. \A i \in 1 .. m : b[i] \in P
    BY <2>1
  <2>3. \A p \in P : \E i \in 1 .. m : b[i] = p
    BY <2>1
  <2>4. ASSUME NEW i \in 1 .. m, NEW j \in 1 .. m, i < j PROVE b[i] < b[j]
    <3>1. i - 1 \in 0 .. m /\ j - 1 \in 0 .. m /\ i - 1 < j - 1
      BY <1>2, <2>4
    <3> QED BY <1>4, <2>1, <3>1
  <2> HIDE DEF P
  <2> QED BY <2>1, <2>2, <2>3, <2>4 DEF Ordered
<1>15. a = b
  <2> HIDE DEF a, b, P
  <2> QED BY <1>13, <1>14, OrderSame
<1>16. r = m
  <2>1. Len(a) = r /\ Len(b) = m
    BY <1>2, <1>11
  <2> HIDE DEF a, b
  <2> QED BY <1>15, <2>1
<1>17. ASSUME NEW i \in 1 .. m PROVE raws[i] = q[i]
  <2>1. sp[i][1] = c[i - 1]
    <3>1. a[i] = sp[i][1] /\ b[i] = c[i - 1]
      BY <1>16
    <3> HIDE DEF a, b
    <3> QED BY <1>15, <3>1
  <2>2. PICK k \in 1 .. m : sp[i] = <<c[k - 1], c[k]>> /\ sp[i][1] = c[k - 1]
    BY <1>12, <1>16
  <2>3. k = i
    <3>1. k - 1 \in 0 .. m /\ i - 1 \in 0 .. m /\ c[k - 1] = c[i - 1] /\ c[i - 1] \in Nat
      BY <1>3, <2>1, <2>2
    <3>2. ~(k - 1 < i - 1) /\ ~(i - 1 < k - 1)
      BY <1>4, <3>1
    <3> QED BY <1>2, <3>2
  <2>4. PICK x \in Nat, y \in Nat : x = c[i - 1] /\ y = c[i]
    BY <1>3
  <2>5. raws[i] = SubSeq(w, x + 1, y - 1)
    <3>1. sp[i][1] = x /\ sp[i][2] = y
      BY <2>2, <2>3, <2>4
    <3> QED BY <1>11, <1>16, <3>1 DEF SpanText
  <2>6. x < y /\ y <= n + 1 /\ y - 1 - x = Len(q[i])
    <3>1. /\ y = x + Len(q[i]) + 1 /\ Len(q[i]) \in Nat /\ y <= n + 1
      BY <1>3, <2>4
    <3> QED BY ONLY x \in Nat, y \in Nat, <3>1
  <2> DEFINE t == SubSeq(w, x + 1, y - 1)
  <2>7. t \in Seq(S) /\ Len(t) = Len(q[i]) /\ Lies(w, x, t)
    <3> HIDE DEF t
    <3>1. /\ SubSeq(w, x + 1, y - 1) \in Seq(S)
          /\ Len(SubSeq(w, x + 1, y - 1)) = y - 1 - x
          /\ Lies(w, x, SubSeq(w, x + 1, y - 1))
      BY <1>1, <2>6, PartIs DEF n
    <3> QED BY <2>6, <3>1 DEF t
  <2> HIDE DEF t
  <2>8. \A j \in 1 .. Len(q[i]) : t[j] = q[i][j]
    BY <1>3, <2>4, <2>7 DEF Lies
  <2>9. t = q[i]
    <3>1. q[i] \in Seq(S) /\ Len(t) = Len(q[i])
      BY <1>3, <2>7
    <3>2. /\ t = [j \in 1 .. Len(t) |-> t[j]]
          /\ q[i] = [j \in 1 .. Len(q[i]) |-> q[i][j]]
      BY <2>7, <3>1
    <3> QED BY <2>8, <3>1, <3>2
  <2> QED BY <2>5, <2>9 DEF t
<1>18. raws = q
  BY <1>0, <1>11, <1>16, <1>17
<1> QED BY <1>18 DEF raws

-----------------------------------------------------------------------------
(* An option from its key and value, and what escaping does.               *)

\* A text without backslashes is read as it is.
LEMMA PlainReads ==
  ASSUME NEW S, NEW t \in Seq(S), \A i \in 1 .. Len(t) : t[i] # BACKSLASH
  PROVE  Unescape(t) = t
<1> DEFINE n == Len(t)
           b == [i \in 1 .. n |-> i]
           o == InOrder(t, 1 .. n)
<1>1. n \in Nat /\ DOMAIN t = 1 .. n /\ t = [i \in 1 .. n |-> t[i]]
  OBVIOUS
<1>2. Unescaped(t, BACKSLASH) = {}
  <2>1. Unescaped(t, BACKSLASH) = {i \in 1 .. n : t[i] = BACKSLASH /\ ~IsLiteral(t, i)}
    BY MarksAre
  <2> QED BY <2>1
<1>3. Unescape(t) = [k \in DOMAIN o |-> t[o[k]]]
  <2>1. DOMAIN t \ Unescaped(t, BACKSLASH) = 1 .. n
    BY <1>1, <1>2
  <2> QED BY <2>1 DEF Unescape, At
<1>4. Ordered(o, 1 .. n)
  BY <1>1, InOrderIs
<1>5. Ordered(b, 1 .. n)
  <2> HIDE DEF n
  <2>1. b \in [1 .. n -> Nat]
    BY <1>1
  <2>2. b \in Seq(Nat) /\ Len(b) = n /\ \A i \in 1 .. n : b[i] = i
    BY <1>1, <2>1
  <2> HIDE DEF b
  <2> QED BY <2>2 DEF Ordered
<1>6. o = b
  <2> HIDE DEF o, b, n
  <2> QED BY <1>4, <1>5, OrderSame
<1>7. [k \in DOMAIN b |-> t[b[k]]] = [i \in 1 .. n |-> t[i]]
  <2> HIDE DEF n
  <2> QED OBVIOUS
<1> QED
  <2> HIDE DEF o, b, n
  <2> QED BY <1>1, <1>3, <1>6, <1>7

\* What can stand as a value: no separator ends it, and it ends no escape.
IsClosed(S, E) ==
  E \in Seq(S) /\ Marks(E, SEPARATOR) = {} /\ ~IsLiteral(E, Len(E) + 1)

\* The key is what stands before the "=" and the value what stands behind it.
LEMMA OptionReads ==
  ASSUME NEW S, SPECIAL \subseteq S, NEW k \in S \ SPECIAL, NEW E, IsClosed(S, E),
         NEW o, o = <<k, "=">> \o E
  PROVE  /\ IsItem(S, o) /\ Len(o) = Len(E) + 2
         /\ KeyOf(o) = <<k>> /\ ValueOf(o) = Unescape(E)
<1> DEFINE n == Len(E)
<1>1. E \in Seq(S) /\ n \in Nat /\ Marks(E, SEPARATOR) = {} /\ ~IsLiteral(E, n + 1)
  BY DEF IsClosed
<1>2. k # BACKSLASH /\ k # SEPARATOR /\ k # "=" /\ "=" \in S
  BY Signs
<1>3. /\ o \in Seq(S) /\ Len(o) = n + 2 /\ o[1] = k /\ o[2] = "="
      /\ \A j \in 1 .. n : o[2 + j] = E[j]
  BY <1>1, <1>2
<1> HIDE DEF n
<1>4. ~IsLiteral(o, 2)
  <2>1. 2 \in Nat \ {0} /\ 2 - 1 = 1
    OBVIOUS
  <2>2. o[1] # BACKSLASH
    BY <1>2, <1>3
  <2> QED BY <2>1, <2>2, LiteralStep
<1>5. ~IsLiteral(o, 2 + 1)
  <2>1. 2 + 1 \in Nat \ {0} /\ (2 + 1) - 1 = 2
    OBVIOUS
  <2>2. o[2] # BACKSLASH
    BY <1>3, Signs
  <2> QED BY <2>1, <2>2, LiteralStep
<1>6. Lies(o, 2, E)
  BY <1>3 DEF Lies, n
<1>7. \A j \in 1 .. n + 1 : IsLiteral(E, j) <=> IsLiteral(o, 2 + j)
  BY <1>1, <1>5, <1>6, PartLiteral DEF n
<1>8. Marks(o, SEPARATOR) = {}
  <2>1. SUFFICES ASSUME NEW i \in Marks(o, SEPARATOR) PROVE FALSE
    OBVIOUS
  <2>2. i \in 1 .. n + 2 /\ o[i] = SEPARATOR /\ ~IsLiteral(o, i)
    <3>1. Marks(o, SEPARATOR) = {x \in 1 .. Len(o) : o[x] = SEPARATOR /\ ~IsLiteral(o, x)}
      <4>1. o \in Seq(S)
        BY <1>3
      <4> QED BY ONLY <4>1, MarksAre
    <3> QED BY <1>3, <3>1
  <2>3. i # 1 /\ i # 2
    BY <1>2, <1>3, <2>2, Signs
  <2>4. PICK j \in 1 .. n : i = 2 + j
    <3>1. i - 2 \in 1 .. n /\ i = 2 + (i - 2)
      BY <1>1, <2>2, <2>3
    <3> QED BY <3>1
  <2>5. j \in 1 .. n + 1
    BY <1>1
  <2>6. E[j] = SEPARATOR /\ ~IsLiteral(E, j)
    BY <1>3, <1>7, <2>2, <2>4, <2>5
  <2>7. j \in Marks(E, SEPARATOR)
    <3>1. Marks(E, SEPARATOR) = {x \in 1 .. n : E[x] = SEPARATOR /\ ~IsLiteral(E, x)}
      BY <1>1, MarksAre DEF n
    <3> QED BY <2>6, <3>1
  <2> QED BY <1>1, <2>7
<1>9. ~IsLiteral(o, Len(o) + 1)
  <2>1. n + 1 \in 1 .. n + 1 /\ Len(o) + 1 = 2 + (n + 1)
    BY <1>1, <1>3
  <2> QED BY <1>1, <1>7, <2>1
<1>10. IsItem(S, o)
  <2>1. o # <<>>
    BY <1>1, <1>3
  <2> QED BY <1>3, <1>8, <1>9, <2>1 DEF IsItem
<1> DEFINE U == Unescaped(o, "=")
<1>11. U # {} /\ Min(U) = 2
  <2>1. U = {i \in 1 .. n + 2 : o[i] = "=" /\ ~IsLiteral(o, i)}
    <3>1. o \in Seq(S) /\ Len(o) = n + 2
      BY <1>3
    <3>2. U = {i \in 1 .. Len(o) : o[i] = "=" /\ ~IsLiteral(o, i)}
      BY ONLY <3>1, MarksAre
    <3> QED BY ONLY <3>1, <3>2
  <2> HIDE DEF U
  <2>2. 2 \in U /\ 1 \notin U /\ U \subseteq Nat \ {0}
    BY <1>1, <1>2, <1>3, <1>4, <2>1
  <2>3. Min(U) \in U /\ \A y \in U : Min(U) <= y
    BY <2>2, LeastIs
  <2>4. Min(U) \in Nat /\ Min(U) # 0 /\ Min(U) # 1 /\ Min(U) <= 2
    BY <2>2, <2>3
  <2>5. Min(U) = 2
    BY ONLY <2>4
  <2> QED BY <2>2, <2>5
<1>12. SplitFirstUnescaped(o, "=") = <<SubSeq(o, 1, 2 - 1), SubSeq(o, 2 + 1, Len(o))>>
  BY <1>11 DEF SplitFirstUnescaped
<1>13. SubSeq(o, 1, 2 - 1) = <<k>>
  <2> DEFINE t == SubSeq(o, 0 + 1, 2 - 1)
  <2>1. 0 < 2 /\ 2 <= Len(o) + 1 /\ 2 - 1 - 0 = 1 /\ 0 + 1 = 1
    BY <1>1, <1>3
  <2>2. t \in Seq(S) /\ Len(t) = 1 /\ Lies(o, 0, t)
    <3>1. /\ SubSeq(o, 0 + 1, 2 - 1) \in Seq(S)
          /\ Len(SubSeq(o, 0 + 1, 2 - 1)) = 2 - 1 - 0
          /\ Lies(o, 0, SubSeq(o, 0 + 1, 2 - 1))
      <4>1. 0 \in Nat /\ 2 \in Nat
        OBVIOUS
      <4> QED BY ONLY <1>3, <2>1, <4>1, PartIs
    <3> HIDE DEF t
    <3> QED BY <2>1, <3>1 DEF t
  <2> HIDE DEF t
  <2>3. t[1] = k
    <3>1. o[0 + 1] = t[1]
      BY <2>2 DEF Lies
    <3> QED BY <1>3, <2>1, <3>1
  <2>4. t = <<k>>
    BY <2>2, <2>3
  <2> QED BY <2>1, <2>4 DEF t
<1>14. SubSeq(o, 2 + 1, Len(o)) = E
  <2> DEFINE t == SubSeq(o, 2 + 1, (n + 3) - 1)
  <2>1. n + 3 \in Nat /\ 2 < n + 3 /\ n + 3 <= Len(o) + 1 /\ (n + 3) - 1 = Len(o) /\ (n + 3) - 1 - 2 = n
    BY <1>1, <1>3
  <2> HIDE DEF t
  <2>2. t \in Seq(S) /\ Len(t) = n /\ Lies(o, 2, t)
    <3>1. /\ SubSeq(o, 2 + 1, (n + 3) - 1) \in Seq(S)
          /\ Len(SubSeq(o, 2 + 1, (n + 3) - 1)) = (n + 3) - 1 - 2
          /\ Lies(o, 2, SubSeq(o, 2 + 1, (n + 3) - 1))
      <4>1. 2 \in Nat /\ o \in Seq(S)
        BY <1>3
      <4> QED BY ONLY <2>1, <4>1, PartIs
    <3> QED BY <2>1, <3>1 DEF t
  <2>3. \A j \in 1 .. n : t[j] = E[j]
    BY <1>3, <2>2 DEF Lies
  <2>4. /\ t = [j \in 1 .. Len(t) |-> t[j]]
        /\ E = [j \in 1 .. n |-> E[j]]
    BY <1>1, <2>2 DEF n
  <2>5. t = E
    BY <2>2, <2>3, <2>4
  <2> QED BY <2>1, <2>5 DEF t
<1>15. Unescape(<<k>>) = <<k>>
  <2>1. <<k>> \in Seq(S) /\ \A i \in 1 .. Len(<<k>>) : <<k>>[i] # BACKSLASH
    BY <1>2
  <2> QED BY <2>1, PlainReads
<1>16. KeyOf(o) = <<k>> /\ ValueOf(o) = Unescape(E)
  <2>1. SplitFirstUnescaped(o, "=")[1] = <<k>> /\ SplitFirstUnescaped(o, "=")[2] = E
    <3>1. SplitFirstUnescaped(o, "=") = <<<<k>>, E>>
      BY ONLY <1>12, <1>13, <1>14
    <3> QED BY ONLY <3>1
  <2> QED BY <1>15, <2>1 DEF KeyOf, ValueOf
<1> QED BY <1>3, <1>10, <1>16 DEF n

\* What Escape puts for one symbol.
Escaped(x) == IF x \in SPECIAL THEN <<BACKSLASH, x>> ELSE <<x>>

\* E is what Escape makes of v, and what stands for v[i] ends at c[i].
Escapes(S, v, E, c) ==
  /\ v \in Seq(S) /\ E \in Seq(S) /\ c \in [0 .. Len(v) -> Nat]
  /\ c[0] = 0 /\ c[Len(v)] = Len(E)
  /\ \A i \in 1 .. Len(v) :
       IF v[i] \in SPECIAL
       THEN c[i] = c[i - 1] + 2 /\ E[c[i - 1] + 1] = BACKSLASH /\ E[c[i - 1] + 2] = v[i]
       ELSE c[i] = c[i - 1] + 1 /\ E[c[i - 1] + 1] = v[i]

\* Escape puts for each symbol what Escaped says.
LEMMA EscapeIs ==
  ASSUME NEW S, SPECIAL \subseteq S, NEW v \in Seq(S)
  PROVE  \E c : Escapes(S, v, Escape(v), c)
<1> DEFINE n == Len(v)
           q == [i \in 1 .. n |-> Escaped(v[i])]
<1>1. n \in Nat /\ DOMAIN v = 1 .. n /\ \A i \in 1 .. n : v[i] \in S
  OBVIOUS
<1>2. Escape(v) = FlattenSeq(q)
  <2>1. q = [i \in 1 .. n |-> IF v[i] \in SPECIAL THEN <<BACKSLASH, v[i]>> ELSE <<v[i]>>]
    BY DEF Escaped
  <2> QED BY <1>1, <2>1 DEF Escape
<1>3. BACKSLASH \in S
  BY Signs
<1>4. ASSUME NEW x \in S
      PROVE  /\ Escaped(x) \in Seq(S)
             /\ x \in SPECIAL => Len(Escaped(x)) = 2 /\ Escaped(x)[1] = BACKSLASH /\ Escaped(x)[2] = x
             /\ x \notin SPECIAL => Len(Escaped(x)) = 1 /\ Escaped(x)[1] = x
  BY <1>3 DEF Escaped
<1>5. q \in Seq(Seq(S)) /\ Len(q) = n /\ \A i \in 1 .. n : q[i] = Escaped(v[i])
  <2>1. \A i \in 1 .. n : Escaped(v[i]) \in Seq(S)
    BY <1>1, <1>4
  <2> HIDE DEF n
  <2>2. q \in [1 .. n -> Seq(S)]
    BY <2>1
  <2> QED BY <1>1, <2>2
<1> DEFINE E == FlattenSeq(q)
<1>6. E \in Seq(S) /\ \E c : Joins(q, c, E)
  <2> HIDE DEF q
  <2> QED BY <1>5, Flattened
<1> HIDE DEF q, E
<1>7. PICK c : Joins(q, c, E)
  BY <1>6
<1> HIDE DEF n
<1>8. ASSUME NEW i \in 1 .. n
      PROVE  IF v[i] \in SPECIAL
             THEN c[i] = c[i - 1] + 2 /\ E[c[i - 1] + 1] = BACKSLASH /\ E[c[i - 1] + 2] = v[i]
             ELSE c[i] = c[i - 1] + 1 /\ E[c[i - 1] + 1] = v[i]
  <2>1. c[i] = c[i - 1] + Len(q[i]) /\ \A j \in 1 .. Len(q[i]) : E[c[i - 1] + j] = q[i][j]
    BY <1>5, <1>7 DEF Joins, Lies
  <2>2. v[i] \in S /\ q[i] = Escaped(v[i])
    BY <1>1, <1>5
  <2>3. CASE v[i] \in SPECIAL
    <3>1. Len(q[i]) = 2 /\ q[i][1] = BACKSLASH /\ q[i][2] = v[i]
      BY <1>4, <2>2, <2>3
    <3>2. 1 \in 1 .. Len(q[i]) /\ 2 \in 1 .. Len(q[i])
      BY <3>1
    <3>3. E[c[i - 1] + 1] = q[i][1] /\ E[c[i - 1] + 2] = q[i][2]
      BY <2>1, <3>2
    <3> QED BY <2>1, <2>3, <3>1, <3>3
  <2>4. CASE v[i] \notin SPECIAL
    <3>1. Len(q[i]) = 1 /\ q[i][1] = v[i]
      BY <1>4, <2>2, <2>4
    <3>2. 1 \in 1 .. Len(q[i])
      BY <3>1
    <3>3. E[c[i - 1] + 1] = q[i][1]
      BY <2>1, <3>2
    <3> QED BY <2>1, <2>4, <3>1, <3>3
  <2> QED BY <2>3, <2>4
<1>9. c \in [0 .. n -> Nat] /\ c[0] = 0 /\ c[n] = Len(E)
  BY <1>5, <1>7 DEF Joins
<1>10. Escapes(S, v, E, c)
  BY <1>6, <1>8, <1>9 DEF Escapes, n
<1> QED BY <1>2, <1>10 DEF E

\* An escaped text is read as the text: unescape (sip003.rs:220) undoes what an
\* operator writes, for any text; none of its symbols separates options, and no
\* backslash of it reaches what follows.
THEOREM EscapeReads ==
  ASSUME NEW S, SPECIAL \subseteq S, NEW v \in Seq(S)
  PROVE  IsClosed(S, Escape(v)) /\ Unescape(Escape(v)) = v
<1> DEFINE n == Len(v)
           E == Escape(v)
           D == 1 .. Len(E) \ Unescaped(E, BACKSLASH)
<1>1. PICK c : Escapes(S, v, E, c)
  BY EscapeIs
<1> HIDE DEF E
<1>2. /\ E \in Seq(S) /\ Len(E) \in Nat /\ DOMAIN E = 1 .. Len(E)
      /\ c \in [0 .. n -> Nat] /\ c[0] = 0 /\ c[n] = Len(E)
  BY <1>1 DEF Escapes
<1>3. n \in Nat /\ v = [i \in 1 .. n |-> v[i]]
  OBVIOUS
<1>4. ASSUME NEW i \in 1 .. n
      PROVE  /\ i - 1 \in 0 .. n /\ i \in 0 .. n /\ c[i] \in Nat /\ c[i - 1] \in Nat
             /\ v[i] \in SPECIAL =>
                  c[i] = c[i - 1] + 2 /\ E[c[i - 1] + 1] = BACKSLASH /\ E[c[i - 1] + 2] = v[i]
             /\ v[i] \notin SPECIAL => c[i] = c[i - 1] + 1 /\ E[c[i - 1] + 1] = v[i]
  <2> HIDE DEF n
  <2>1. i - 1 \in 0 .. n /\ i \in 0 .. n
    BY <1>3
  <2> QED BY <1>1, <1>2, <2>1 DEF Escapes, n
<1> HIDE DEF n
<1>5. \A i \in 0 .. n : ~IsLiteral(E, c[i] + 1)
  <2> DEFINE T == {k \in Nat : k <= n => ~IsLiteral(E, c[k] + 1)}
  <2>1. 0 \in T
    <3>1. 1 \in Nat \ {0} /\ ~(1 > 1) /\ 0 + 1 = 1
      OBVIOUS
    <3> QED BY <1>2, <3>1, LiteralStep
  <2>2. ASSUME NEW k \in T PROVE k + 1 \in T
    <3>1. SUFFICES ASSUME k + 1 <= n PROVE ~IsLiteral(E, c[k + 1] + 1)
      OBVIOUS
    <3>2. k \in Nat /\ k + 1 \in 1 .. n /\ (k + 1) - 1 = k /\ ~IsLiteral(E, c[k] + 1)
      BY <3>1, <1>3
    <3>3. PICK x \in Nat : x = c[k]
      BY <1>4, <3>2
    <3>4. /\ x + 2 \in Nat \ {0} /\ (x + 2) - 1 = x + 1 /\ x + 2 > 1
          /\ (x + 2) + 1 \in Nat \ {0} /\ ((x + 2) + 1) - 1 = x + 2 /\ (x + 1) + 1 = x + 2
      BY ONLY x \in Nat
    <3>5. CASE v[k + 1] \in SPECIAL
      <4>1. c[k + 1] = x + 2 /\ E[x + 1] = BACKSLASH
        BY <1>4, <3>2, <3>3, <3>5
      <4>2. IsLiteral(E, x + 2)
        BY <3>2, <3>3, <3>4, <4>1, LiteralStep
      <4> QED BY <3>4, <4>1, <4>2, LiteralStep
    <3>6. CASE v[k + 1] \notin SPECIAL
      <4>1. c[k + 1] = x + 1 /\ E[x + 1] = v[k + 1] /\ v[k + 1] # BACKSLASH
        BY <1>4, <3>2, <3>3, <3>6, Signs
      <4>2. ~IsLiteral(E, x + 2)
        BY <3>4, <4>1, LiteralStep
      <4> QED BY <3>4, <4>1, <4>2
    <3> QED BY <3>5, <3>6
  <2>3. T = Nat
    <3>1. T \subseteq Nat /\ \A k \in T : k + 1 \in T
      BY <2>2
    <3> HIDE DEF T
    <3> QED BY <2>1, <3>1, NumberInduction
  <2>4. \A k \in 0 .. n : k \in T
    <3> HIDE DEF T
    <3> QED BY <2>3, <1>3
  <2> QED BY <2>4
<1>6. ASSUME NEW i \in 1 .. n, v[i] \in SPECIAL
      PROVE  ~IsLiteral(E, c[i - 1] + 1) /\ IsLiteral(E, c[i])
  <2>1. PICK x \in Nat : x = c[i - 1]
    BY <1>4
  <2>2. ~IsLiteral(E, x + 1) /\ E[x + 1] = BACKSLASH /\ c[i] = x + 2
    BY <1>4, <1>5, <1>6, <2>1
  <2>3. x + 2 \in Nat \ {0} /\ (x + 2) - 1 = x + 1 /\ x + 2 > 1
    BY ONLY x \in Nat
  <2> QED BY <2>1, <2>2, <2>3, LiteralStep
<1>7. ASSUME NEW p \in 1 .. Len(E)
      PROVE  \E i \in 1 .. n : p = c[i] \/ (p = c[i - 1] + 1 /\ v[i] \in SPECIAL)
  <2>1. p \in Nat /\ c[0] < p /\ p <= c[n]
    BY <1>2
  <2>2. PICK i \in 1 .. n : c[i - 1] < p /\ p <= c[i]
    BY <1>2, <1>3, <2>1, Located
  <2>3. p = c[i] \/ (p = c[i - 1] + 1 /\ v[i] \in SPECIAL)
    BY <1>4, <2>1, <2>2
  <2> QED BY <2>3
<1>8. \A i, j \in 0 .. n : i < j => c[i] < c[j]
  <2>1. \A i \in 1 .. n : c[i - 1] < c[i]
    BY <1>4
  <2> QED BY <1>2, <1>3, <2>1, Climbs
<1>9. ASSUME NEW i \in 1 .. n
      PROVE  c[i] \in 1 .. Len(E) /\ E[c[i]] = v[i] /\ (v[i] \in SPECIAL \/ v[i] # BACKSLASH)
  <2>1. c[i] <= Len(E)
    <3>1. n \in 0 .. n /\ i \in 0 .. n /\ (i = n \/ i < n) /\ c[i] \in Nat /\ c[n] \in Nat
      BY <1>2, <1>3, <1>4
    <3> QED BY <1>2, <1>8, <3>1
  <2>2. c[i] > 0
    BY <1>4
  <2>3. E[c[i]] = v[i]
    BY <1>4
  <2> QED BY <1>2, <1>4, <2>1, <2>2, <2>3, Signs
<1>10. Marks(E, SEPARATOR) = {}
  <2>1. SUFFICES ASSUME NEW p \in Marks(E, SEPARATOR) PROVE FALSE
    OBVIOUS
  <2>2. p \in 1 .. Len(E) /\ E[p] = SEPARATOR /\ ~IsLiteral(E, p)
    BY <1>2, MarksAre
  <2>3. PICK i \in 1 .. n : p = c[i] \/ (p = c[i - 1] + 1 /\ v[i] \in SPECIAL)
    BY <1>7, <2>2
  <2>4. CASE p = c[i]
    <3>1. v[i] \in SPECIAL
      BY <1>9, <2>2, <2>4, Signs
    <3> QED BY <1>6, <2>2, <2>4, <3>1
  <2>5. CASE p = c[i - 1] + 1 /\ v[i] \in SPECIAL
    BY <1>4, <2>2, <2>5, Signs
  <2> QED BY <2>3, <2>4, <2>5
<1>11. ~IsLiteral(E, Len(E) + 1)
  <2>1. n \in 0 .. n
    BY <1>3
  <2> QED BY <1>2, <1>5, <2>1
<1>12. D = {c[i] : i \in 1 .. n}
  <2>1. Unescaped(E, BACKSLASH) = {p \in 1 .. Len(E) : E[p] = BACKSLASH /\ ~IsLiteral(E, p)}
    BY <1>2, MarksAre
  <2>2. ASSUME NEW p \in D PROVE \E i \in 1 .. n : p = c[i]
    <3>1. p \in 1 .. Len(E) /\ ~(E[p] = BACKSLASH /\ ~IsLiteral(E, p))
      BY <2>1
    <3>2. PICK i \in 1 .. n : p = c[i] \/ (p = c[i - 1] + 1 /\ v[i] \in SPECIAL)
      BY <1>7, <3>1
    <3>3. ~(p = c[i - 1] + 1 /\ v[i] \in SPECIAL)
      BY <1>4, <1>6, <3>1
    <3> QED BY <3>2, <3>3
  <2>3. ASSUME NEW i \in 1 .. n PROVE c[i] \in D
    <3>1. ~(E[c[i]] = BACKSLASH /\ ~IsLiteral(E, c[i]))
      BY <1>6, <1>9
    <3> QED BY <1>9, <2>1, <3>1
  <2> HIDE DEF D
  <2> QED BY <2>2, <2>3
<1> DEFINE b == [i \in 1 .. n |-> c[i]]
           o == InOrder(E, D)
<1>13. Ordered(b, D)
  <2> HIDE DEF D
  <2>1. b \in Seq(Nat) /\ Len(b) = n /\ \A i \in 1 .. n : b[i] = c[i]
    <3>1. b \in [1 .. n -> Nat]
      BY <1>4
    <3> QED BY <1>3, <3>1
  <2> HIDE DEF b
  <2>2. \A i, j \in 1 .. n : i < j => b[i] < b[j]
    BY <1>4, <1>8, <2>1
  <2>3. (\A i \in 1 .. n : b[i] \in D) /\ \A p \in D : \E i \in 1 .. n : b[i] = p
    BY <1>12, <2>1
  <2> QED BY <2>1, <2>2, <2>3 DEF Ordered
<1>14. o = b
  <2>1. D \subseteq 1 .. Len(E)
    OBVIOUS
  <2> HIDE DEF D
  <2>2. Ordered(o, D)
    BY <1>2, <2>1, InOrderIs
  <2> HIDE DEF o, b
  <2> QED BY <1>13, <2>2, OrderSame
<1>15. Unescape(E) = [k \in DOMAIN o |-> E[o[k]]]
  BY <1>2 DEF Unescape, At
<1>16. [k \in DOMAIN b |-> E[b[k]]] = [i \in 1 .. n |-> v[i]]
  BY <1>9
<1>17. Unescape(E) = v
  <2> HIDE DEF o, b
  <2> QED BY <1>3, <1>14, <1>15, <1>16
<1> QED BY <1>2, <1>10, <1>11, <1>17 DEF IsClosed, E

-----------------------------------------------------------------------------
(* Written assignments.                                                    *)

\* w is the items of q with a separator behind each.
Complete(S, w, q) == \E c : Lists(S, w, q, c) /\ c[Len(q)] = Len(w)

\* Options put behind each other with a separator each.
LEMMA ItemsComplete ==
  ASSUME NEW S, SEPARATOR \in S, NEW n \in Nat, NEW q, q \in [1 .. n -> Seq(S)],
         \A i \in 1 .. n : IsItem(S, q[i])
  PROVE  Complete(S, FlattenSeq([i \in 1 .. n |-> q[i] \o <<SEPARATOR>>]), q)
<1> DEFINE d == [i \in 1 .. n |-> q[i] \o <<SEPARATOR>>]
           w == FlattenSeq(d)
<1>1. q \in Seq(Seq(S)) /\ Len(q) = n
  OBVIOUS
<1>2. ASSUME NEW i \in 1 .. n
      PROVE  /\ d[i] = q[i] \o <<SEPARATOR>> /\ d[i] \in Seq(S) /\ Len(q[i]) \in Nat
             /\ Len(d[i]) = Len(q[i]) + 1 /\ d[i][Len(q[i]) + 1] = SEPARATOR
             /\ \A j \in 1 .. Len(q[i]) : d[i][j] = q[i][j]
  <2>1. q[i] \in Seq(S) /\ <<SEPARATOR>> \in Seq(S)
    OBVIOUS
  <2>2. d[i] = q[i] \o <<SEPARATOR>>
    OBVIOUS
  <2> HIDE DEF d
  <2> QED BY <2>1, <2>2
<1>3. d \in Seq(Seq(S)) /\ Len(d) = n
  <2>1. \A i \in 1 .. n : q[i] \o <<SEPARATOR>> \in Seq(S)
    BY <1>2
  <2>2. d \in [1 .. n -> Seq(S)]
    BY <2>1
  <2> HIDE DEF d
  <2> QED BY <2>2
<1> HIDE DEF d
<1>4. w \in Seq(S) /\ \E c : Joins(d, c, w)
  BY <1>3, Flattened
<1>5. PICK c : Joins(d, c, w)
  BY <1>4
<1> HIDE DEF w
<1>6. c \in [0 .. n -> Nat] /\ c[0] = 0 /\ c[n] = Len(w)
  BY <1>3, <1>5 DEF Joins
<1>7. ASSUME NEW i \in 1 .. n
      PROVE  /\ c[i] = c[i - 1] + Len(q[i]) + 1 /\ Lies(w, c[i - 1], q[i])
             /\ c[i] <= Len(w) /\ w[c[i]] = SEPARATOR
  <2>1. /\ c[i] = c[i - 1] + Len(d[i]) /\ c[i] <= Len(w)
        /\ \A j \in 1 .. Len(d[i]) : w[c[i - 1] + j] = d[i][j]
    BY <1>3, <1>5 DEF Joins, Lies
  <2>2. i - 1 \in 0 .. n /\ c[i - 1] \in Nat
    BY <1>6
  <2>3. \A j \in 1 .. Len(q[i]) : j \in 1 .. Len(d[i])
    BY <1>2
  <2>4. Len(q[i]) + 1 \in 1 .. Len(d[i]) /\ c[i] = c[i - 1] + (Len(q[i]) + 1)
        /\ c[i] = c[i - 1] + Len(q[i]) + 1
    <3>1. /\ Len(q[i]) \in Nat /\ Len(d[i]) = Len(q[i]) + 1
          /\ c[i] = c[i - 1] + Len(d[i]) /\ c[i - 1] \in Nat
      BY <1>2, <2>1, <2>2
    <3> QED BY ONLY <3>1
  <2>5. w[c[i]] = SEPARATOR
    BY <1>2, <2>1, <2>4
  <2>6. Lies(w, c[i - 1], q[i])
    BY <1>2, <2>1, <2>3 DEF Lies
  <2> QED BY <2>1, <2>4, <2>5, <2>6
<1>8. Len(w) \in Nat
  BY <1>4
<1>9. Lists(S, w, q, c)
  <2>1. \A i \in 1 .. n : c[i] \in Nat /\ c[i] <= Len(w) + 1
    BY <1>6, <1>7, <1>8
  <2> QED BY <1>1, <1>4, <1>6, <1>7, <2>1 DEF Lists
<1> QED BY <1>1, <1>6, <1>9 DEF Complete, w, d

\* Keys, which mean nothing special, and values that are any texts.
Assigns(S) == Seq((S \ SPECIAL) \X Seq(S))

\* The option an assignment is written as.
OptionOf(a) == Option(a[1], Escape(a[2]))
\* The options of a sequence of assignments.
OptionsOf(s) == [i \in 1 .. Len(s) |-> OptionOf(s[i])]

\* A written assignment is read as its key and value.
LEMMA OptionOfReads ==
  ASSUME NEW S, SPECIAL \subseteq S, NEW a \in (S \ SPECIAL) \X Seq(S)
  PROVE  IsItem(S, OptionOf(a)) /\ KeyOf(OptionOf(a)) = <<a[1]>> /\ ValueOf(OptionOf(a)) = a[2]
<1>1. a[1] \in S \ SPECIAL /\ a[2] \in Seq(S)
  OBVIOUS
<1>2. IsClosed(S, Escape(a[2])) /\ Unescape(Escape(a[2])) = a[2]
  BY <1>1, EscapeReads
<1> DEFINE o == OptionOf(a)
<1>3. o = <<a[1], "=">> \o Escape(a[2])
  BY DEF OptionOf, Option
<1> HIDE DEF o
<1>4. IsItem(S, o) /\ KeyOf(o) = <<a[1]>> /\ ValueOf(o) = Unescape(Escape(a[2]))
  <2>1. PICK k \in S \ SPECIAL : k = a[1]
    BY <1>1
  <2>2. PICK E : E = Escape(a[2])
    OBVIOUS
  <2>3. o = <<k, "=">> \o E /\ IsClosed(S, E)
    BY <1>2, <1>3, <2>1, <2>2
  <2>4. IsItem(S, o) /\ KeyOf(o) = <<k>> /\ ValueOf(o) = Unescape(E)
    BY ONLY SPECIAL \subseteq S, k \in S \ SPECIAL, <2>3, OptionReads
  <2> QED BY <2>1, <2>2, <2>4
<1> QED BY <1>2, <1>4 DEF o

\* Written writes the options with a separator behind each.
LEMMA WrittenComplete ==
  ASSUME NEW S, SPECIAL \subseteq S, NEW s \in Assigns(S)
  PROVE  Complete(S, Written(s), OptionsOf(s))
<1> DEFINE n == Len(s)
           q == OptionsOf(s)
<1>1. n \in Nat /\ DOMAIN s = 1 .. n /\ \A i \in 1 .. n : s[i] \in (S \ SPECIAL) \X Seq(S)
  BY DEF Assigns
<1>2. \A i \in 1 .. n : IsItem(S, OptionOf(s[i]))
  BY <1>1, OptionOfReads
<1>3. \A i \in 1 .. n : q[i] = OptionOf(s[i])
  BY DEF OptionsOf
<1>4. q \in [1 .. n -> Seq(S)] /\ \A i \in 1 .. n : IsItem(S, q[i])
  <2>1. \A i \in 1 .. n : OptionOf(s[i]) \in Seq(S)
    BY <1>2 DEF IsItem
  <2>2. q = [i \in 1 .. n |-> OptionOf(s[i])]
    BY DEF OptionsOf
  <2> QED BY <1>2, <1>3, <2>1, <2>2
<1>5. Written(s) = FlattenSeq([i \in 1 .. n |-> q[i] \o <<SEPARATOR>>])
  <2>1. \A i \in 1 .. n : q[i] \o <<SEPARATOR>> = Option(s[i][1], Escape(s[i][2])) \o <<SEPARATOR>>
    BY <1>3 DEF OptionOf
  <2>2. [i \in 1 .. n |-> q[i] \o <<SEPARATOR>>]
          = [i \in 1 .. n |-> Option(s[i][1], Escape(s[i][2])) \o <<SEPARATOR>>]
    <3> HIDE DEF q, n
    <3> QED BY <2>1
  <2> QED BY <1>1, <2>2 DEF Written
<1>6. SEPARATOR \in S
  BY Signs
<1> HIDE DEF q, n
<1> QED BY <1>1, <1>4, <1>5, <1>6, ItemsComplete DEF q

\* Such a text is read as its options.
LEMMA CompleteRaws ==
  ASSUME NEW S, NEW w, NEW q, Complete(S, w, q)
  PROVE  Raws(w) = q
BY ListsRaws DEF Complete

\* One more option, with or without a separator behind it.
LEMMA ListsMore ==
  ASSUME NEW S, SEPARATOR \in S, NEW w, NEW q, NEW c, Lists(S, w, q, c), c[Len(q)] = Len(w),
         NEW o, IsItem(S, o), NEW z \in {<<>>, <<SEPARATOR>>}
  PROVE  \E d : Lists(S, w \o o \o z, Append(q, o), d) /\ d[Len(q) + 1] = Len(w) + Len(o) + 1
<1> DEFINE m == Len(q)
           n == Len(w)
           l == Len(o)
           t == w \o o \o z
           r == Append(q, o)
           d == [i \in 0 .. m + 1 |-> IF i <= m THEN c[i] ELSE n + l + 1]
<1>1. /\ w \in Seq(S) /\ q \in Seq(Seq(S)) /\ c \in [0 .. m -> Nat] /\ c[0] = 0 /\ c[m] = n
      /\ o \in Seq(S) /\ z \in Seq(S) /\ o # <<>>
  <2>1. /\ w \in Seq(S) /\ q \in Seq(Seq(S)) /\ c \in [0 .. m -> Nat] /\ c[0] = 0
    BY DEF Lists
  <2>2. o \in Seq(S) /\ o # <<>>
    BY DEF IsItem
  <2>3. z \in Seq(S)
    <3>1. CASE z = <<>>
      BY <3>1
    <3>2. CASE z = <<SEPARATOR>>
      BY <3>2
    <3> QED BY <3>1, <3>2
  <2> QED BY <2>1, <2>2, <2>3
<1>2. m \in Nat /\ n \in Nat /\ l \in Nat /\ l > 0
  BY <1>1
<1>3. /\ t \in Seq(S) /\ Len(t) = n + l + Len(z) /\ Len(z) \in {0, 1}
      /\ \A i \in 1 .. n : t[i] = w[i]
      /\ \A i \in 1 .. l : t[n + i] = o[i]
      /\ z # <<>> => t[n + l + 1] = SEPARATOR
  <2> DEFINE u == w \o o
  <2>1. /\ u \in Seq(S) /\ Len(u) = n + l
        /\ \A i \in 1 .. n : u[i] = w[i]
        /\ \A i \in 1 .. l : u[n + i] = o[i]
    BY <1>1, <1>2
  <2>2. t = u \o z
    OBVIOUS
  <2> HIDE DEF u, t
  <2>3. Len(z) \in {0, 1} /\ (z # <<>> => Len(z) = 1 /\ z[1] = SEPARATOR)
    OBVIOUS
  <2>4. /\ t \in Seq(S) /\ Len(t) = Len(u) + Len(z)
        /\ \A i \in 1 .. Len(u) : t[i] = u[i]
        /\ \A i \in 1 .. Len(z) : t[Len(u) + i] = z[i]
    <3>1. u \in Seq(S) /\ z \in Seq(S) /\ t = u \o z
      BY <1>1, <2>1, <2>2
    <3> QED BY ONLY <3>1
  <2>5. \A i \in 1 .. n : i \in 1 .. Len(u)
    BY <1>2, <2>1
  <2>6. \A i \in 1 .. l : n + i \in 1 .. Len(u)
    BY <1>2, <2>1
  <2>7. Len(t) = n + l + Len(z)
    BY <2>1, <2>4
  <2> HIDE DEF n, l
  <2>8. \A i \in 1 .. n : t[i] = w[i]
    BY <2>1, <2>4, <2>5
  <2>9. \A i \in 1 .. l : t[n + i] = o[i]
    BY <2>1, <2>4, <2>6
  <2>10. ASSUME z # <<>> PROVE t[n + l + 1] = SEPARATOR
    <3>1. 1 \in 1 .. Len(z) /\ z[1] = SEPARATOR
      BY <2>3, <2>10
    <3>2. t[Len(u) + 1] = SEPARATOR
      BY <2>4, <3>1
    <3> QED BY <2>1, <3>2
  <2> QED BY <2>3, <2>4, <2>7, <2>8, <2>9, <2>10
<1>4. /\ r \in Seq(Seq(S)) /\ Len(r) = m + 1 /\ r[m + 1] = o
      /\ \A i \in 1 .. m : r[i] = q[i]
  BY <1>1
<1>5. ASSUME NEW i \in 1 .. m
      PROVE  /\ IsItem(S, q[i]) /\ Len(q[i]) \in Nat /\ c[i] = c[i - 1] + Len(q[i]) + 1
             /\ Lies(w, c[i - 1], q[i]) /\ (c[i] <= n => w[c[i]] = SEPARATOR)
             /\ i \in 0 .. m /\ i - 1 \in 0 .. m /\ c[i] \in Nat /\ c[i - 1] \in Nat
  <2>1. /\ IsItem(S, q[i]) /\ c[i] = c[i - 1] + Len(q[i]) + 1
        /\ Lies(w, c[i - 1], q[i]) /\ (c[i] <= n => w[c[i]] = SEPARATOR)
    BY DEF Lists
  <2>2. Len(q[i]) \in Nat
    BY <2>1 DEF IsItem
  <2>3. i \in 0 .. m /\ i - 1 \in 0 .. m
    BY <1>2
  <2> QED BY <1>1, <2>1, <2>2, <2>3
<1> HIDE DEF m, n, l, t, r
<1>6. \A i, j \in 0 .. m : i < j => c[i] < c[j]
  <2>1. \A i \in 1 .. m : c[i - 1] < c[i]
    BY <1>5
  <2> QED BY <1>1, <1>2, <2>1, Climbs
<1>7. ASSUME NEW i \in 1 .. m PROVE c[i] <= n
  <2>1. m \in 0 .. m /\ i \in 0 .. m /\ (i = m \/ i < m)
    BY <1>2
  <2> QED BY <1>1, <1>2, <1>5, <1>6, <2>1
<1>8. /\ d \in [0 .. m + 1 -> Nat] /\ d[0] = 0 /\ d[m + 1] = n + l + 1 /\ d[m] = n
      /\ \A i \in 0 .. m : d[i] = c[i]
  <2>1. \A i \in 0 .. m + 1 : (IF i <= m THEN c[i] ELSE n + l + 1) \in Nat
    BY <1>1, <1>2
  <2>2. \A i \in 0 .. m : i \in 0 .. m + 1 /\ i <= m
    BY <1>2
  <2>3. m + 1 \in 0 .. m + 1 /\ ~(m + 1 <= m) /\ 0 \in 0 .. m /\ m \in 0 .. m
    BY <1>2
  <2> QED BY <1>1, <2>1, <2>2, <2>3
<1> HIDE DEF d
<1>9. ASSUME NEW i \in 1 .. m + 1
      PROVE  /\ IsItem(S, r[i]) /\ d[i] = d[i - 1] + Len(r[i]) + 1 /\ Lies(t, d[i - 1], r[i])
             /\ d[i] <= Len(t) + 1 /\ (d[i] <= Len(t) => t[d[i]] = SEPARATOR)
  <2>1. CASE i \in 1 .. m
    <3>1. r[i] = q[i] /\ d[i] = c[i] /\ d[i - 1] = c[i - 1]
      BY <1>4, <1>5, <1>8, <2>1
    <3>2. c[i] <= n /\ n <= Len(t) /\ c[i] \in 1 .. n /\ Len(t) \in Nat
      <4>1. c[i] <= n /\ c[i] \in Nat /\ c[i - 1] \in Nat /\ c[i] = c[i - 1] + Len(q[i]) + 1
            /\ Len(q[i]) \in Nat
        BY <1>5, <1>7, <2>1
      <4>2. n <= Len(t) /\ Len(t) \in Nat
        BY <1>2, <1>3
      <4>3. c[i] \in 1 .. n
        BY <1>2, <4>1
      <4> QED BY <4>1, <4>2, <4>3
    <3>3. \A j \in 1 .. Len(q[i]) : t[c[i - 1] + j] = q[i][j]
      <4>1. SUFFICES ASSUME NEW j \in 1 .. Len(q[i]) PROVE t[c[i - 1] + j] = q[i][j]
        OBVIOUS
      <4>2. c[i - 1] + j \in 1 .. n
        <5>1. c[i - 1] \in Nat /\ c[i] = c[i - 1] + Len(q[i]) + 1 /\ Len(q[i]) \in Nat
              /\ c[i] <= n /\ c[i] \in Nat
          BY <1>5, <2>1, <3>2
        <5> QED BY ONLY <1>2, <5>1, j \in 1 .. Len(q[i])
      <4>3. w[c[i - 1] + j] = q[i][j]
        BY <1>5, <2>1 DEF Lies
      <4> QED BY <1>3, <4>2, <4>3
    <3>4. t[c[i]] = SEPARATOR
      BY <1>3, <1>5, <2>1, <3>2
    <3>5. c[i] <= Len(t) + 1
      BY <1>2, <1>3, <1>5, <2>1, <3>2
    <3> QED BY <1>5, <2>1, <3>1, <3>3, <3>4, <3>5 DEF Lies
  <2>2. CASE i = m + 1
    <3>1. r[i] = o /\ d[i] = n + l + 1 /\ i - 1 = m /\ d[i - 1] = n
      BY <1>2, <1>4, <1>8, <2>2
    <3>2. Lies(t, n, o)
      BY <1>3 DEF Lies, l
    <3>3. n + l + 1 <= Len(t) + 1
      BY <1>2, <1>3
    <3>4. n + l + 1 <= Len(t) => z # <<>>
      BY <1>2, <1>3
    <3> QED BY <1>3, <3>1, <3>2, <3>3, <3>4 DEF l
  <2> QED BY <1>2, <2>1, <2>2
<1>10. Len(t) = d[m + 1] \/ Len(t) + 1 = d[m + 1]
  <2>1. Len(t) = n + l + Len(z) /\ Len(z) \in {0, 1} /\ d[m + 1] = n + l + 1
    BY <1>3, <1>8
  <2>2. CASE Len(z) = 0
    BY <1>2, <2>1, <2>2
  <2>3. CASE Len(z) = 1
    BY <1>2, <2>1, <2>3
  <2> QED BY <2>1, <2>2, <2>3
<1>11. Lists(S, t, r, d)
  BY <1>3, <1>4, <1>8, <1>9, <1>10 DEF Lists
<1> QED BY <1>8, <1>11 DEF t, r, m, n, l

\* One more option, whether or not a separator follows it, is read after the others.
LEMMA CompleteMore ==
  ASSUME NEW S, SEPARATOR \in S, NEW w, NEW q, Complete(S, w, q), NEW o, IsItem(S, o)
  PROVE  /\ Complete(S, w \o o \o <<SEPARATOR>>, Append(q, o))
         /\ Raws(w \o o) = Append(q, o)
<1>1. PICK c : Lists(S, w, q, c) /\ c[Len(q)] = Len(w)
  BY DEF Complete
<1>2. w \in Seq(S) /\ q \in Seq(Seq(S)) /\ o \in Seq(S)
  BY <1>1 DEF Lists, IsItem
<1>3. Complete(S, w \o o \o <<SEPARATOR>>, Append(q, o))
  <2> DEFINE t == w \o o \o <<SEPARATOR>>
  <2>1. PICK d : Lists(S, t, Append(q, o), d) /\ d[Len(q) + 1] = Len(w) + Len(o) + 1
    <3>1. <<SEPARATOR>> \in {<<>>, <<SEPARATOR>>}
      OBVIOUS
    <3> QED BY <1>1, <3>1, ListsMore
  <2>2. Len(t) = Len(w) + Len(o) + 1 /\ Len(Append(q, o)) = Len(q) + 1
    <3>1. w \o o \in Seq(S) /\ Len(w \o o) = Len(w) + Len(o) /\ Len(Append(q, o)) = Len(q) + 1
      BY <1>2
    <3>2. Len((w \o o) \o <<SEPARATOR>>) = Len(w \o o) + 1
      BY <3>1
    <3> QED BY <3>1, <3>2
  <2> HIDE DEF t
  <2>3. Complete(S, t, Append(q, o))
    BY <2>1, <2>2 DEF Complete
  <2> QED BY <2>3 DEF t
<1>4. Raws(w \o o) = Append(q, o)
  <2>1. w \o o \o <<>> = w \o o
    BY <1>2
  <2>2. \E d : Lists(S, w \o o \o <<>>, Append(q, o), d)
    <3>1. <<>> \in {<<>>, <<SEPARATOR>>}
      OBVIOUS
    <3> QED BY <1>1, <3>1, ListsMore
  <2> QED BY <2>1, <2>2, ListsRaws
<1> QED BY <1>3, <1>4

\* The options the texts between separators stand for.
RawsOk(raws) == \A i \in DOMAIN raws : KeyOf(raws[i]) # <<>>
RawsMap(raws) ==
  [k \in {KeyOf(raws[i]) : i \in DOMAIN raws} |->
     ValueOf(raws[Max({i \in DOMAIN raws : KeyOf(raws[i]) = k})])]

\* Parse is RawsOk and RawsMap of the raw options.
LEMMA ParseIs ==
  ASSUME NEW s
  PROVE  Parse(s).ok = RawsOk(Raws(s)) /\ Parse(s).map = RawsMap(Raws(s))
BY Zenon DEF Parse, RawsOk, RawsMap

\* What is written for assignments is read as them.
LEMMA WrittenReads ==
  ASSUME NEW S, SPECIAL \subseteq S, NEW s \in Assigns(S)
  PROVE  RawsOk(OptionsOf(s)) /\ RawsMap(OptionsOf(s)) = Assigned(s)
<1> DEFINE n == Len(s)
           raws == OptionsOf(s)
           T(k) == {i \in 1 .. n : KeyOf(raws[i]) = k}
           U(k) == {i \in 1 .. n : <<s[i][1]>> = k}
           K == {KeyOf(raws[i]) : i \in 1 .. n}
<1>1. n \in Nat /\ DOMAIN s = 1 .. n /\ \A i \in 1 .. n : s[i] \in (S \ SPECIAL) \X Seq(S)
  BY DEF Assigns
<1>2. DOMAIN raws = 1 .. n /\ \A i \in 1 .. n : raws[i] = OptionOf(s[i])
  BY DEF OptionsOf
<1> HIDE DEF n, raws
<1>3. \A i \in 1 .. n : KeyOf(raws[i]) = <<s[i][1]>> /\ ValueOf(raws[i]) = s[i][2]
  BY <1>1, <1>2, OptionOfReads
<1>4. K = {<<s[i][1]>> : i \in 1 .. n}
  BY <1>3
<1>5. ASSUME NEW k PROVE T(k) = U(k)
  BY <1>3
<1>6. ASSUME NEW k \in K PROVE ValueOf(raws[Max(T(k))]) = s[Max(U(k))][2]
  <2>1. T(k) \subseteq 1 .. n /\ T(k) # {}
    OBVIOUS
  <2>2. Max(T(k)) \in T(k)
    <3> HIDE DEF T, K
    <3> QED BY <1>1, <2>1, LargestIs
  <2>3. Max(T(k)) \in 1 .. n
    BY <2>1, <2>2
  <2> HIDE DEF T, U, K
  <2> QED BY <1>3, <1>5, <2>3
<1>7. RawsMap(raws) = [k \in K |-> ValueOf(raws[Max(T(k))])]
  BY <1>2 DEF RawsMap
<1>8. Assigned(s) = [k \in K |-> s[Max(U(k))][2]]
  BY <1>1, <1>4 DEF Assigned
<1>9. RawsMap(raws) = Assigned(s)
  <2> HIDE DEF K, T, U
  <2> QED BY <1>6, <1>7, <1>8
<1>10. RawsOk(raws)
  BY <1>2, <1>3 DEF RawsOk
<1> QED BY <1>9, <1>10 DEF raws

\* b is a with a value for a key, whatever a had for it.
IsMore(a, b, key, value) ==
  /\ DOMAIN b = DOMAIN a \cup {key} /\ b[key] = value
  /\ \A k \in DOMAIN a : k # key => b[k] = a[k]

\* One more option gives its key a value, and no other.
LEMMA MapMore ==
  ASSUME NEW S, NEW raws \in Seq(S), NEW o, KeyOf(o) # <<>>, RawsOk(raws)
  PROVE  /\ RawsOk(Append(raws, o))
         /\ IsMore(RawsMap(raws), RawsMap(Append(raws, o)), KeyOf(o), ValueOf(o))
<1> DEFINE n == Len(raws)
           r == Append(raws, o)
           a == RawsMap(raws)
           b == RawsMap(r)
           T(k) == {i \in 1 .. n : KeyOf(raws[i]) = k}
           U(k) == {i \in 1 .. n + 1 : KeyOf(r[i]) = k}
<1>1. n \in Nat /\ DOMAIN raws = 1 .. n
  OBVIOUS
<1>2. /\ DOMAIN r = 1 .. n + 1 /\ r[n + 1] = o
      /\ \A i \in 1 .. n : r[i] = raws[i]
  <2>1. raws \in Seq(S \cup {o}) /\ o \in S \cup {o}
    OBVIOUS
  <2> QED BY <1>1, <2>1
<1> HIDE DEF n, r, a, b
<1>3. 1 .. n + 1 = 1 .. n \cup {n + 1} /\ n + 1 \notin 1 .. n
  BY <1>1
<1>4. RawsOk(r)
  BY <1>1, <1>2, <1>3 DEF RawsOk
<1>5. /\ DOMAIN a = {KeyOf(raws[i]) : i \in 1 .. n}
      /\ \A k \in DOMAIN a : a[k] = ValueOf(raws[Max(T(k))])
  BY <1>1 DEF RawsMap, a
<1>6. /\ DOMAIN b = {KeyOf(r[i]) : i \in 1 .. n + 1}
      /\ \A k \in DOMAIN b : b[k] = ValueOf(r[Max(U(k))])
  BY <1>2 DEF RawsMap, b
<1>7. DOMAIN b = DOMAIN a \cup {KeyOf(o)}
  BY <1>2, <1>3, <1>5, <1>6
<1>8. b[KeyOf(o)] = ValueOf(o)
  <2> DEFINE V == U(KeyOf(o))
  <2>1. n + 1 \in V /\ V \subseteq 1 .. n + 1 /\ n + 1 \in Nat
    BY <1>1, <1>2, <1>3
  <2>2. Max(V) \in V /\ \A y \in V : y <= Max(V)
    <3> HIDE DEF V
    <3> QED BY <2>1, LargestIs
  <2>3. Max(V) = n + 1
    <3>1. Max(V) \in 1 .. n + 1 /\ n + 1 <= Max(V)
      <4> HIDE DEF V
      <4> QED BY <2>1, <2>2
    <3> HIDE DEF V
    <3> QED BY <1>1, <3>1
  <2> HIDE DEF V
  <2>4. KeyOf(o) \in DOMAIN b
    BY <1>7
  <2> QED BY <1>2, <1>6, <2>3, <2>4 DEF V
<1>9. ASSUME NEW k \in DOMAIN a, k # KeyOf(o) PROVE b[k] = a[k]
  <2>1. U(k) = T(k)
    BY <1>2, <1>3, <1>9
  <2>2. T(k) \subseteq 1 .. n /\ T(k) # {}
    BY <1>5
  <2>3. Max(T(k)) \in 1 .. n
    <3>1. Max(T(k)) \in T(k)
      <4> HIDE DEF T
      <4> QED BY <1>1, <2>2, LargestIs
    <3> QED BY <3>1
  <2> HIDE DEF T, U
  <2>4. b[k] = ValueOf(r[Max(U(k))]) /\ a[k] = ValueOf(raws[Max(T(k))])
    BY <1>5, <1>6, <1>7
  <2> QED BY <1>2, <2>1, <2>3, <2>4
<1>10. IsMore(a, b, KeyOf(o), ValueOf(o))
  BY <1>7, <1>8, <1>9 DEF IsMore
<1> QED BY <1>4, <1>10 DEF r, a, b

-----------------------------------------------------------------------------
(* The texts the operator pastes.                                          *)

\* The client dials where the server listens.
LEMMA AddressesAgree == Reached
BY AddressAssumption DEF Reached, Listen, Endpoints

\* The symbols and keys are words, and no key means anything special.
LEMMA WordsAre ==
  /\ SPECIAL \subseteq WORDS /\ SEPARATOR \in WORDS /\ "=" \in WORDS /\ "A" \in WORDS
  /\ SYMBOLS \subseteq WORDS
  /\ {"ech_public_name", "ech_key", "ech_config", "ech_config_file", "k"} \subseteq WORDS \ SPECIAL
<1>1. \A x \in {"ech_public_name", "ech_key", "ech_config", "ech_config_file", "k"} :
        x # BACKSLASH /\ x # SEPARATOR /\ x # "="
  <2>1. \A x \in {"ech_public_name", "ech_key", "ech_config", "ech_config_file", "k"} : x # BACKSLASH
    BY DEF BACKSLASH
  <2>2. \A x \in {"ech_public_name", "ech_key", "ech_config", "ech_config_file", "k"} : x # SEPARATOR
    BY Zenon DEF SEPARATOR
  <2> QED BY <2>1, <2>2
<1> QED BY <1>1, WordsAssumption, Signs

\* A plain text can stand as a value as it is.
LEMMA PlainClosed ==
  ASSUME NEW t, IsPlain(t)
  PROVE  IsClosed(WORDS, t) /\ Unescape(t) = t
<1> DEFINE n == Len(t)
<1>1. t \in Seq(WORDS) /\ n \in Nat /\ \A i \in 1 .. n : t[i] # BACKSLASH /\ t[i] # SEPARATOR
  BY DEF IsPlain
<1>2. Marks(t, SEPARATOR) = {}
  <2>1. Marks(t, SEPARATOR) = {i \in 1 .. n : t[i] = SEPARATOR /\ ~IsLiteral(t, i)}
    BY <1>1, MarksAre
  <2> QED BY <1>1, <2>1
<1>3. ~IsLiteral(t, n + 1)
  <2>1. CASE n = 0
    <3>1. n + 1 \in Nat \ {0} /\ ~(n + 1 > 1)
      BY <2>1
    <3> QED BY <3>1, LiteralStep
  <2>2. CASE n # 0
    <3>1. n + 1 \in Nat \ {0} /\ (n + 1) - 1 = n /\ n \in 1 .. n
      BY <1>1, <2>2
    <3> HIDE DEF n
    <3> QED BY <1>1, <3>1, LiteralStep
  <2> QED BY <2>1, <2>2
<1>4. Unescape(t) = t
  BY <1>1, PlainReads
<1> QED BY <1>1, <1>2, <1>3, <1>4 DEF IsClosed

\* A base64 text needs no escape.
LEMMA EncodedPlain ==
  ASSUME NEW k \in Nat
  PROVE  IsPlain(B64(k)) /\ Len(B64(k)) = k + 2
<1>1. \A i \in 1 .. k + 2 : (IF i <= k THEN "A" ELSE "=") \in WORDS \ {BACKSLASH, SEPARATOR}
  <2>1. "A" # BACKSLASH /\ "=" # BACKSLASH
    BY Zenon DEF BACKSLASH
  <2>2. "A" # SEPARATOR /\ "=" # SEPARATOR
    BY Zenon DEF SEPARATOR
  <2> QED BY <2>1, <2>2, WordsAre
<1> DEFINE t == B64(k)
<1>2. t \in [1 .. k + 2 -> WORDS \ {BACKSLASH, SEPARATOR}]
  BY <1>1 DEF B64
<1> HIDE DEF t
<1>3. k + 2 \in Nat
  OBVIOUS
<1>4. t \in Seq(WORDS) /\ Len(t) = k + 2 /\ \A i \in DOMAIN t : t[i] \notin {BACKSLASH, SEPARATOR}
  BY <1>2, <1>3
<1> QED BY <1>4 DEF IsPlain, t

\* A base64 text names one key.
LEMMA DecodedIs ==
  ASSUME NEW k \in 1 .. MaxGens
  PROVE  Decodes(B64(k)) /\ Decoded(B64(k)) = k
<1>1. Decodes(B64(k))
  BY DEF Decodes
<1>2. ASSUME NEW j \in 1 .. MaxGens, B64(k) = B64(j) PROVE j = k
  <2>1. Len(B64(j)) = j + 2 /\ Len(B64(k)) = k + 2 /\ j \in Nat /\ k \in Nat
    BY PluginAssumption, EncodedPlain
  <2>2. j + 2 = k + 2
    BY <1>2, <2>1
  <2> QED BY <2>1, <2>2
<1>3. Decoded(B64(k)) = k
  BY <1>2 DEF Decoded
<1> QED BY <1>1, <1>3

\* a and b have the same options but those of some keys.
Agree(a, b, keys) ==
  /\ \A x : x \notin keys => (Has(a, x) <=> Has(b, x))
  /\ \A x : x \notin keys /\ Has(a, x) => Get(b, x) = Get(a, x)

\* b is a with one more option.
Extends(a, b, k, v) == Agree(a, b, {k}) /\ Has(b, k) /\ Get(b, k) = v

\* w reads as a, and an option can be put behind it.
ReadsAs(w, a) ==
  \E q : Complete(WORDS, w, q) /\ RawsOk(q) /\ a = RawsMap(q)

\* What reads as a is parsed as a.
LEMMA CompleteReads ==
  ASSUME NEW w, NEW a, ReadsAs(w, a)
  PROVE  Parse(w).ok /\ Parse(w).map = a
BY CompleteRaws, ParseIs DEF ReadsAs

\* An operator's own options are read as they were meant.
LEMMA SetUpReads ==
  ASSUME NEW s, NEW mode, NEW keys, SetUp(s, mode, keys)
  PROVE  ReadsAs(Written(s), Assigned(s))
<1>1. s \in Assigns(WORDS)
  BY DEF SetUp, Assigns
<1> QED BY <1>1, WordsAre, WrittenComplete, WrittenReads DEF ReadsAs

\* A printed option behind w is read as its key and value.
LEMMA ReadsMore ==
  ASSUME NEW w, NEW a, ReadsAs(w, a), NEW k \in WORDS \ SPECIAL, NEW v, IsPlain(v)
  PROVE  \E b : /\ Extends(a, b, k, v)
                /\ ReadsAs(w \o Option(k, v) \o <<SEPARATOR>>, b)
                /\ Parse(w \o Option(k, v)).ok /\ Parse(w \o Option(k, v)).map = b
<1> DEFINE o == Option(k, v)
<1>1. PICK q : Complete(WORDS, w, q) /\ RawsOk(q) /\ a = RawsMap(q)
  BY DEF ReadsAs
<1>2. o = <<k, "=">> \o v
  BY DEF Option
<1> HIDE DEF o
<1>3. IsItem(WORDS, o) /\ KeyOf(o) = <<k>> /\ ValueOf(o) = v
  <2>1. IsClosed(WORDS, v) /\ Unescape(v) = v
    BY PlainClosed
  <2>2. SPECIAL \subseteq WORDS
    BY WordsAre
  <2>3. IsItem(WORDS, o) /\ KeyOf(o) = <<k>> /\ ValueOf(o) = Unescape(v)
    <3>1. PICK S : S = WORDS
      OBVIOUS
    <3>2. SPECIAL \subseteq S /\ k \in S \ SPECIAL /\ IsClosed(S, v) /\ o = <<k, "=">> \o v
      BY <1>2, <2>1, <2>2, <3>1
    <3>3. IsItem(S, o) /\ KeyOf(o) = <<k>> /\ ValueOf(o) = Unescape(v)
      BY ONLY <3>2, OptionReads
    <3> QED BY <3>1, <3>3
  <2> QED BY <2>1, <2>3
<1> DEFINE r == Append(q, o)
           b == RawsMap(r)
<1>4. Complete(WORDS, w \o o \o <<SEPARATOR>>, r) /\ Raws(w \o o) = r
  <2>1. SEPARATOR \in WORDS
    BY WordsAre
  <2> HIDE DEF r
  <2>2. r = Append(q, o)
    BY DEF r
  <2> QED BY <1>1, <1>3, <2>1, <2>2, CompleteMore
<1>5. q \in Seq(Seq(WORDS))
  BY <1>1 DEF Complete, Lists
<1>6. RawsOk(r) /\ IsMore(a, b, KeyOf(o), ValueOf(o))
  <2> HIDE DEF r, b
  <2>0. r = Append(q, o) /\ b = RawsMap(r)
    BY DEF r, b
  <2>1. KeyOf(o) # <<>>
    BY <1>3
  <2>2. RawsOk(Append(q, o)) /\ IsMore(RawsMap(q), RawsMap(Append(q, o)), KeyOf(o), ValueOf(o))
    BY <1>1, <1>5, <2>1, MapMore
  <2> QED BY <1>1, <2>0, <2>2
<1> HIDE DEF r, b
<1>7. RawsOk(r)
  BY <1>6
<1>8. Extends(a, b, k, v)
  <2>1. \A x : <<x>> = <<k>> <=> x = k
    OBVIOUS
  <2> QED BY <1>3, <1>6, <2>1 DEF Extends, Agree, Has, Get, IsMore
<1>9. ReadsAs(w \o o \o <<SEPARATOR>>, b)
  BY <1>4, <1>7 DEF ReadsAs, b
<1>10. Parse(w \o o).ok /\ Parse(w \o o).map = b
  BY <1>4, <1>7, ParseIs DEF b
<1> QED BY <1>8, <1>9, <1>10 DEF o

\* Two more options change no key but theirs.
LEMMA AgreeTwice ==
  ASSUME NEW a, NEW b, NEW c, NEW k, NEW l, NEW v, Extends(a, b, k, v),
         NEW z, Extends(b, c, l, z)
  PROVE  Agree(a, c, {k, l})
BY DEF Extends, Agree

-----------------------------------------------------------------------------
(* The configurations they have.                                           *)

\* Two option sets say the same of a key.
SameOf(a, b, x) ==
  /\ Has(a, x) <=> Has(b, x)
  /\ Has(a, x) => Get(b, x) = Get(a, x)
  /\ \A d : GetOr(b, x, d) = GetOr(a, x, d)
  /\ Required(a, x) <=> Required(b, x)
  /\ BoolOk(a, x) <=> BoolOk(b, x)
  /\ \A d : Bool(b, x, d) = Bool(a, x, d)

\* A key that was not pasted is judged as before.
LEMMA AgreeSame ==
  ASSUME NEW a, NEW b, NEW keys, Agree(a, b, keys), NEW x, x \notin keys
  PROVE  SameOf(a, b, x)
<1>1. (Has(a, x) <=> Has(b, x)) /\ (Has(a, x) => Get(b, x) = Get(a, x))
  BY DEF Agree
<1>2. ASSUME NEW d PROVE GetOr(b, x, d) = GetOr(a, x, d) /\ Bool(b, x, d) = Bool(a, x, d)
  <2>1. CASE Has(a, x)
    BY <1>1, <2>1, Zenon DEF GetOr, Bool
  <2>2. CASE ~Has(a, x)
    BY <1>1, <2>2, Zenon DEF GetOr, Bool
  <2> QED BY <2>1, <2>2
<1>3. Required(a, x) <=> Required(b, x)
  BY <1>2 DEF Required
<1>4. BoolOk(a, x) <=> BoolOk(b, x)
  BY <1>1 DEF BoolOk
<1> QED BY <1>1, <1>2, <1>3, <1>4 DEF SameOf

\* The printed options leave a server's set accepted, with the printed key file.
LEMMA ServerMore ==
  ASSUME NEW a, NEW b, IsAccepted(a), Mode(a) = "server",
         Agree(a, b, {"ech_public_name", "ech_key"}), Has(b, "ech_key")
  PROVE  /\ IsAccepted(b) /\ Mode(b) = "server" /\ Get(b, "path") = Get(a, "path")
<1>1. /\ SameOf(a, b, "mode") /\ SameOf(a, b, "domain") /\ SameOf(a, b, "path")
      /\ SameOf(a, b, "cert") /\ SameOf(a, b, "key") /\ SameOf(a, b, "acme_email")
      /\ SameOf(a, b, "acme_staging") /\ SameOf(a, b, "fast_open")
      /\ SameOf(a, b, "acme_cover_san") /\ SameOf(a, b, "reject_non_ech") /\ SameOf(a, b, "http3")
  <2>1. \A x \in {"mode", "domain", "path", "cert", "key", "acme_email", "acme_staging",
                  "fast_open", "acme_cover_san", "reject_non_ech", "http3"} :
          x \notin {"ech_public_name", "ech_key"}
    OBVIOUS
  <2> QED BY <2>1, AgreeSame
<1>2. ModeOk(a) /\ ServerAccepted(a)
  BY DEF IsAccepted
<1>3. ModeOk(b) /\ Mode(b) = "server"
  BY <1>1, <1>2 DEF ModeOk, Mode, SameOf
<1>4. WsPathOk(b) /\ Get(b, "path") = Get(a, "path")
  <2>1. WsPathOk(a)
    BY <1>2 DEF ServerAccepted
  <2>2. Has(a, "path")
    BY <2>1 DEF WsPathOk, Required, GetOr
  <2> QED BY <1>1, <2>1, <2>2 DEF WsPathOk, SameOf
<1>5. ServerTlsOk(b)
  <2>1. ServerTlsOk(a)
    BY <1>2 DEF ServerAccepted
  <2> QED BY <1>1, <2>1 DEF ServerTlsOk, SameOf
<1>6. ServerAccepted(b)
  BY <1>1, <1>2, <1>4, <1>5 DEF ServerAccepted, ServerEchOk, SameOf
<1> QED BY <1>3, <1>4, <1>6 DEF IsAccepted

\* Either printed option leaves a client's set accepted.
LEMMA ClientMore ==
  ASSUME NEW a, NEW b, IsAccepted(a), Mode(a) = "client",
         Agree(a, b, {"ech_config", "ech_config_file"}),
         ~(Has(b, "ech_config") /\ Has(b, "ech_config_file"))
  PROVE  /\ IsAccepted(b) /\ Mode(b) = "client" /\ Get(b, "path") = Get(a, "path")
<1>1. /\ SameOf(a, b, "mode") /\ SameOf(a, b, "sni") /\ SameOf(a, b, "path")
      /\ SameOf(a, b, "fast_open") /\ SameOf(a, b, "insecure") /\ SameOf(a, b, "ca_file")
      /\ SameOf(a, b, "fingerprint") /\ SameOf(a, b, "transport")
  <2>1. \A x \in {"mode", "sni", "path", "fast_open", "insecure", "ca_file", "fingerprint",
                  "transport"} : x \notin {"ech_config", "ech_config_file"}
    OBVIOUS
  <2> QED BY <2>1, AgreeSame
<1>2. ModeOk(a) /\ ClientAccepted(a)
  BY DEF IsAccepted
<1>3. ModeOk(b) /\ Mode(b) = "client"
  BY <1>1, <1>2 DEF ModeOk, Mode, SameOf
<1>4. WsPathOk(b) /\ Get(b, "path") = Get(a, "path")
  <2>1. WsPathOk(a)
    BY <1>2 DEF ClientAccepted
  <2>2. Has(a, "path")
    BY <2>1 DEF WsPathOk, Required, GetOr
  <2> QED BY <1>1, <2>1, <2>2 DEF WsPathOk, SameOf
<1>5. FingerprintOk(b)
  <2>1. FingerprintOk(a)
    BY <1>2 DEF ClientAccepted
  <2>2. CASE Has(a, "fingerprint")
    BY <1>1, <2>1, <2>2 DEF FingerprintOk, SameOf
  <2>3. CASE ~Has(a, "fingerprint")
    <3>1. GetOr(b, "fingerprint", None) = None
      BY <1>1, <2>3 DEF GetOr, SameOf
    <3>2. Normalized(None) = None
      BY DEF Normalized, None
    <3> QED BY <3>1, <3>2 DEF FingerprintOk
  <2> QED BY <2>2, <2>3
<1>6. ClientTrustOk(b) /\ TransportOk(b)
  BY <1>1, <1>2 DEF ClientAccepted, ClientTrustOk, TransportOk, SameOf
<1>7. ClientAccepted(b)
  BY <1>1, <1>2, <1>4, <1>5, <1>6 DEF ClientAccepted, ClientEchOk, SameOf
<1> QED BY <1>3, <1>4, <1>7 DEF IsAccepted

\* The configuration of a text that is read as accepted options.
LEMMA ConfigIs ==
  ASSUME NEW t, NEW o, Parse(t).ok, Parse(t).map = o, IsAccepted(o)
  PROVE  /\ Mode(o) = "server" => Config(t) = ServerCfg(o)
         /\ Mode(o) = "client" => Config(t) = ClientCfg(o)
BY DEF Config

\* A configuration is not taken for a refusal.
LEMMA CfgIsSome == ASSUME NEW o PROVE ServerCfg(o) # NoCfg /\ ClientCfg(o) # NoCfg
BY DEF ServerCfg, ClientCfg, NoCfg

\* What a server text gives: the path, and the key file as it was printed.
LEMMA ServerTextCfg ==
  ASSUME IsPlain(printed.name), NEW t \in ServerTexts
  PROVE  /\ Config(t) # NoCfg
         /\ \E s \in ServerSetups : Config(t).ws_path = Get(Assigned(s), "path")
         /\ Config(t).ech.on => Config(t).ech.key_file = KEY_PATH /\ printed.key # 0
<1>1. PICK s \in ServerSetups :
        \/ t = Written(s)
        \/ /\ printed.key # 0
           /\ t = Written(s) \o Option("ech_public_name", printed.name) \o <<SEPARATOR>>
                    \o Option("ech_key", KEY_PATH)
  <2> DEFINE L(s) == Written(s) \o Option("ech_public_name", printed.name) \o <<SEPARATOR>>
                    \o Option("ech_key", KEY_PATH)
  <2>1. t \in {Written(s) : s \in ServerSetups} \cup
             {L(s) : s \in IF printed.key = 0 THEN {} ELSE ServerSetups}
    BY DEF ServerTexts
  <2> HIDE DEF L
  <2>2. \E s \in ServerSetups : t = Written(s) \/ (printed.key # 0 /\ t = L(s))
    BY <2>1
  <2> QED BY <2>2 DEF L
<1> DEFINE a == Assigned(s)
           w == Written(s)
<1>2. SetUp(s, "server", {"ech_public_name", "ech_key"})
  BY SetupAssumption
<1>3. IsAccepted(a) /\ Mode(a) = "server" /\ ~Has(a, "ech_key") /\ ReadsAs(w, a)
  <2>1. ReadsAs(w, a)
    BY <1>2, SetUpReads
  <2> QED BY <1>2, <2>1 DEF SetUp
<1> HIDE DEF a, w
<1>4. CASE t = w
  <2>1. Config(t) = ServerCfg(a)
    BY <1>3, <1>4, CompleteReads, ConfigIs
  <2>2. Config(t).ws_path = Get(a, "path") /\ (Config(t).ech.on <=> Has(a, "ech_key"))
    BY <2>1 DEF ServerCfg, ServerEch
  <2> QED BY <1>3, <2>1, <2>2, CfgIsSome DEF a
<1>5. CASE /\ printed.key # 0
           /\ t = w \o Option("ech_public_name", printed.name) \o <<SEPARATOR>>
                    \o Option("ech_key", KEY_PATH)
  <2> DEFINE u == w \o Option("ech_public_name", printed.name) \o <<SEPARATOR>>
  <2>0. "ech_public_name" \in WORDS \ SPECIAL /\ "ech_key" \in WORDS \ SPECIAL
    BY WordsAre
  <2>1. PICK b : Extends(a, b, "ech_public_name", printed.name) /\ ReadsAs(u, b)
    BY <1>3, <2>0, ReadsMore
  <2>2. t = u \o Option("ech_key", KEY_PATH)
    BY <1>5
  <2> HIDE DEF u
  <2>3. IsPlain(KEY_PATH)
    BY PrintedAssumption
  <2>4. PICK c : Extends(b, c, "ech_key", KEY_PATH) /\ Parse(t).ok /\ Parse(t).map = c
    BY <2>0, <2>1, <2>2, <2>3, ReadsMore
  <2>5. Agree(a, c, {"ech_public_name", "ech_key"})
    BY <2>1, <2>4, AgreeTwice
  <2>6. Has(c, "ech_key") /\ Get(c, "ech_key") = KEY_PATH
    BY <2>4 DEF Extends
  <2>7. IsAccepted(c) /\ Mode(c) = "server" /\ Get(c, "path") = Get(a, "path")
    BY <1>3, <2>5, <2>6, ServerMore
  <2>8. Config(t) = ServerCfg(c)
    BY <2>4, <2>7, ConfigIs
  <2>9. Config(t).ws_path = Get(c, "path") /\ Config(t).ech.key_file = KEY_PATH
    BY <2>6, <2>8 DEF ServerCfg, ServerEch, GetOr
  <2> QED BY <1>5, <2>7, <2>8, <2>9, CfgIsSome DEF a
<1> QED BY <1>1, <1>4, <1>5 DEF w

\* What a client text gives: the path, the fingerprint's name, and the list as
\* it was printed, or where to read it.
LEMMA ClientTextCfg ==
  ASSUME printed.key \in 0 .. MaxGens, NEW t \in ClientTexts
  PROVE  /\ Config(t) # NoCfg
         /\ \E s \in ClientSetups : Config(t).ws_path = Get(Assigned(s), "path")
         /\ Config(t).fingerprint # None => Resolves(Config(t).fingerprint)
         /\ Config(t).transport \in {"Tcp", "H3"}
         /\ Config(t).ech.on => printed.key # 0
         /\ Config(t).ech.on /\ ~Config(t).ech.file => Config(t).ech.inline = B64(printed.key)
<1> DEFINE Goal(o) == \* of the options the text is read as
      /\ IsAccepted(o) /\ Mode(o) = "client"
      /\ \E s \in ClientSetups : Get(o, "path") = Get(Assigned(s), "path")
      /\ (Has(o, "ech_config") \/ Has(o, "ech_config_file")) => printed.key # 0
      /\ Has(o, "ech_config") => Get(o, "ech_config") = B64(printed.key)
<1>1. PICK s \in ClientSetups :
        \/ t = Written(s)
        \/ printed.key # 0 /\ t = Written(s) \o Option("ech_config", B64(printed.key))
        \/ printed.key # 0 /\ t = Written(s) \o Option("ech_config_file", <<"list">>)
  <2> DEFINE L(s) == Written(s) \o Option("ech_config", B64(printed.key))
             M(s) == Written(s) \o Option("ech_config_file", <<"list">>)
  <2>1. t \in {Written(s) : s \in ClientSetups} \cup
             UNION {{L(s), M(s)} : s \in IF printed.key = 0 THEN {} ELSE ClientSetups}
    BY DEF ClientTexts
  <2> HIDE DEF L, M
  <2>2. \E s \in ClientSetups :
          t = Written(s) \/ (printed.key # 0 /\ t = L(s)) \/ (printed.key # 0 /\ t = M(s))
    BY <2>1
  <2> QED BY <2>2 DEF L, M
<1> DEFINE a == Assigned(s)
           w == Written(s)
<1>2. SetUp(s, "client", {"ech_config", "ech_config_file"})
  BY SetupAssumption
<1>3. IsAccepted(a) /\ Mode(a) = "client" /\ ~Has(a, "ech_config") /\ ~Has(a, "ech_config_file")
      /\ ReadsAs(w, a)
  <2>1. ReadsAs(w, a)
    BY <1>2, SetUpReads
  <2> QED BY <1>2, <2>1 DEF SetUp
<1> HIDE DEF a, w
<1>4. \E o : Goal(o) /\ Parse(t).ok /\ Parse(t).map = o
  <2>1. CASE t = w
    <3>1. Goal(a)
      BY <1>3 DEF a
    <3> QED BY <1>3, <2>1, <3>1, CompleteReads
  <2>2. ASSUME NEW k \in {"ech_config", "ech_config_file"}, NEW v, IsPlain(v),
               printed.key # 0, t = w \o Option(k, v), k = "ech_config" => v = B64(printed.key)
        PROVE  \E o : Goal(o) /\ Parse(t).ok /\ Parse(t).map = o
    <3>1. k \in WORDS \ SPECIAL
      BY WordsAre
    <3>2. PICK b : Extends(a, b, k, v) /\ Parse(t).ok /\ Parse(t).map = b
      BY <1>3, <2>2, <3>1, ReadsMore
    <3>3. Agree(a, b, {"ech_config", "ech_config_file"})
      BY <3>2 DEF Extends, Agree
    <3>4. "ech_config" # "ech_config_file"
      OBVIOUS
    <3>5. /\ Has(b, k) /\ Get(b, k) = v
          /\ \A x \in {"ech_config", "ech_config_file"} : x # k => ~Has(b, x)
      BY <1>3, <3>2 DEF Extends, Agree
    <3>6. IsAccepted(b) /\ Mode(b) = "client" /\ Get(b, "path") = Get(a, "path")
      BY <1>3, <3>3, <3>4, <3>5, ClientMore
    <3>7. Goal(b)
      BY <2>2, <3>4, <3>5, <3>6 DEF a
    <3> HIDE DEF Goal
    <3> QED BY <3>2, <3>7
  <2>3. IsPlain(B64(printed.key)) /\ IsPlain(<<"list">>)
    <3>1. printed.key \in Nat
      BY PluginAssumption
    <3>2. "list" # BACKSLASH /\ "list" # SEPARATOR
      <4>1. "list" # BACKSLASH
        BY Zenon DEF BACKSLASH
      <4>2. "list" # SEPARATOR
        BY Zenon DEF SEPARATOR
      <4> QED BY <4>1, <4>2
    <3>3. "list" \in WORDS
      BY WordsAssumption
    <3>4. IsPlain(<<"list">>)
      <4>1. <<"list">> \in Seq(WORDS) /\ DOMAIN <<"list">> = {1} /\ <<"list">>[1] = "list"
        BY <3>3
      <4> QED BY <3>2, <4>1 DEF IsPlain
    <3> QED BY <3>1, <3>4, EncodedPlain
  <2> HIDE DEF Goal
  <2>4. CASE printed.key # 0 /\ t = w \o Option("ech_config", B64(printed.key))
    BY <2>2, <2>3, <2>4
  <2>5. CASE printed.key # 0 /\ t = w \o Option("ech_config_file", <<"list">>)
    BY <2>2, <2>3, <2>5
  <2> QED BY <1>1, <2>1, <2>4, <2>5 DEF w
<1>5. PICK o : Goal(o) /\ Parse(t).ok /\ Parse(t).map = o
  BY <1>4
<1>6. Config(t) = ClientCfg(o)
  BY <1>5, ConfigIs
<1> DEFINE cfg == ClientCfg(o)
<1>7. /\ cfg.ws_path = Get(o, "path") /\ cfg.fingerprint = Fingerprint(o) /\ cfg.transport = Transport(o)
      /\ (cfg.ech.on <=> Has(o, "ech_config") \/ Has(o, "ech_config_file"))
      /\ (cfg.ech.file <=> Has(o, "ech_config_file"))
      /\ cfg.ech.inline = GetOr(o, "ech_config", None)
  BY DEF ClientCfg, ClientEch
<1> HIDE DEF cfg
<1>8. cfg.fingerprint # None => Resolves(cfg.fingerprint)
  <2>1. FingerprintOk(o)
    BY <1>5 DEF IsAccepted, ClientAccepted
  <2>2. CASE Has(o, "fingerprint")
    BY <1>7, <2>1, <2>2 DEF FingerprintOk, Fingerprint, GetOr
  <2>3. CASE ~Has(o, "fingerprint")
    <3>1. Normalized(None) = None
      BY DEF Normalized, None
    <3> QED BY <1>7, <2>3, <3>1 DEF Fingerprint, GetOr
  <2> QED BY <2>2, <2>3
<1>9. cfg.transport \in {"Tcp", "H3"}
  BY <1>7 DEF Transport
<1>10. cfg.ech.on /\ ~cfg.ech.file => cfg.ech.inline = B64(printed.key)
  BY <1>5, <1>7 DEF GetOr
<1> QED BY <1>5, <1>6, <1>7, <1>8, <1>9, <1>10, CfgIsSome DEF cfg

-----------------------------------------------------------------------------
(* Option texts.                                                           *)

\* An operator starts from an empty text.
LEMMA TextInit == Init => text \in Seq(SYMBOLS)
BY DEF Init

\* Each step leaves the text or adds a symbol.
LEMMA TextStep == text \in Seq(SYMBOLS) /\ [Next]_vars => (text \in Seq(SYMBOLS))'
<1> SUFFICES ASSUME text \in Seq(SYMBOLS), [Next]_vars PROVE text' \in Seq(SYMBOLS)
  OBVIOUS
<1>1. CASE Type
  BY <1>1 DEF Type
<1>2. CASE text' = text
  BY <1>2
<1>3. Type \/ text' = text
  BY DEF Next, vars, GenKey, GenList, GenPrint, GenStopped, Distribute, StartServer, Swap,
     StopServer, StartClient, StopClient, ConnectTcp, ConnectH3
<1> QED BY <1>1, <1>2, <1>3

\* Any text comes through as the value of an option when it is escaped.
LEMMA ComesThrough ==
  ASSUME NEW S, SPECIAL \subseteq S, NEW k \in S \ SPECIAL, NEW v \in Seq(S),
         NEW s, s = <<<<k, v>>>>, NEW m, m = [x \in {<<k>>} |-> v]
  PROVE  Parse(Written(s)).map = m
<1> DEFINE a == <<k, v>>
           T(x) == {i \in DOMAIN s : <<s[i][1]>> = x}
<1>1. s \in Assigns(S) /\ DOMAIN s = {1} /\ s[1] = a /\ a[1] = k /\ a[2] = v
  BY DEF Assigns
<1> HIDE DEF a
<1>2. Parse(Written(s)).map = Assigned(s)
  BY <1>1, WrittenComplete, CompleteRaws, WrittenReads, ParseIs
<1>3. {<<s[i][1]>> : i \in DOMAIN s} = {<<k>>}
  BY <1>1
<1>4. T(<<k>>) = {1} /\ Max({1}) = 1
  <2>1. T(<<k>>) = {1}
    BY <1>1
  <2>2. {1} \subseteq 1 .. 1 /\ {1} # {} /\ 1 \in Nat
    OBVIOUS
  <2>3. Max({1}) \in {1}
    BY ONLY <2>2, LargestIs
  <2> QED BY <2>1, <2>3
<1>5. Assigned(s) = [x \in {<<k>>} |-> s[Max(T(x))][2]]
  BY <1>3 DEF Assigned
<1>6. s[Max(T(<<k>>))][2] = v
  BY <1>1, <1>4
<1>7. [x \in {<<k>>} |-> s[Max(T(x))][2]] = [x \in {<<k>>} |-> v]
  <2> HIDE DEF T
  <2> QED BY <1>6
<1>8. Parse(Written(s)).map = [x \in {<<k>>} |-> v]
  BY <1>2, <1>5, <1>7
<1> QED BY <1>8

\* Whatever text an operator tries is read as the format means it.
THEOREM TextCorrect == Spec => []TextIsReadAsMeant
<1>1. ASSUME text \in Seq(SYMBOLS) PROVE TextIsReadAsMeant
  <2>1. text \in Seq(WORDS) /\ "k" \in WORDS \ SPECIAL /\ SPECIAL \subseteq WORDS
    <3>1. SYMBOLS \subseteq WORDS
      BY WordsAre
    <3> QED BY <1>1, <3>1, WordsAre
  <2>2. Parse(text).ok = Meaning(text).ok /\ Parse(text).map = Meaning(text).map
    BY <2>1, ReadAsMeant
  <2>3. Parse(Written(<<<<"k", text>>>>)).map = [x \in {<<"k">>} |-> text]
    <3>1. PICK k \in WORDS \ SPECIAL : k = "k"
      BY <2>1
    <3>2. PICK v \in Seq(WORDS) : v = text
      BY <2>1
    <3>3. Parse(Written(<<<<k, v>>>>)).map = [x \in {<<k>>} |-> v]
      <4>1. PICK S : S = WORDS
        OBVIOUS
      <4>2. SPECIAL \subseteq S /\ k \in S \ SPECIAL /\ v \in Seq(S)
        BY <2>1, <4>1
      <4>3. PICK s : s = <<<<k, v>>>>
        OBVIOUS
      <4>4. PICK m : m = [x \in {<<k>>} |-> v]
        OBVIOUS
      <4>5. Parse(Written(s)).map = m
        BY ONLY <4>2, <4>3, <4>4, ComesThrough
      <4> QED BY ONLY <4>3, <4>4, <4>5, Zenon
    <3> QED BY <3>1, <3>2, <3>3
  <2> QED BY <2>2, <2>3, Zenon DEF TextIsReadAsMeant
<1> QED BY <1>1, TextInit, TextStep, PTL DEF Spec

-----------------------------------------------------------------------------
(* The files of ech-gen-keys.                                              *)

\* What a file can hold: nothing, a truncated write, or one of the first n keys.
IsFile(f, n) == f = Missing \/ f = Torn \/ \E k \in 1 .. n : f = Whole(k)

\* The files belong to the generation that wrote them: one in progress has not
\* printed, and when the last one printed, both of its files are whole.
FilesInv ==
  /\ gens \in 0 .. MaxGens
  /\ gen = [at |-> gen.at, name |-> gen.name] /\ IsPlain(gen.name)
  /\ printed.key \in 0 .. gens /\ IsPlain(printed.name)
  /\ IsFile(key_file, gens) /\ IsFile(list_file, gens) /\ IsFile(copy, gens)
  /\ gens > 0 => key_file.is # "missing"
  /\ gen.at # "idle" => printed.key < gens
  /\ gen.at = "list" => key_file = Whole(gens)
  /\ gen.at = "idle" /\ printed.key = gens /\ gens > 0 =>
       key_file = Whole(gens) /\ list_file = Whole(gens)

\* What the processes took from the option texts, and a TCP client from its list.
ServerOk(s) ==
  /\ \E o \in ServerSetups : s.cfg.ws_path = Get(Assigned(o), "path")
  /\ s.cfg.ech.on => s.cfg.ech.key_file = KEY_PATH
ClientOk(c, n) ==
  /\ \E o \in ClientSetups : c.cfg.ws_path = Get(Assigned(o), "path")
  /\ c.cfg.transport \in {"Tcp", "H3"}
  /\ c.cfg.ech.on =>
       /\ n > 0
       /\ ~c.cfg.ech.file => c.read \in 1 .. n /\ c.cfg.ech.inline = B64(c.read)
       /\ c.cfg.transport = "Tcp" => IsFile(c.list, n) /\ c.list.key = c.read
ProcInv == (server.up => ServerOk(server)) /\ (client.up => ClientOk(client, gens))

\* The inductive invariant.
SetInv == KeyInv /\ FilesInv /\ ProcInv /\ PastedSetupWorks

\* No name needs no escape.
LEMMA EmptyPlain == IsPlain(None)
BY DEF IsPlain, None

\* A file of one of the keys stays one when there are more.
LEMMA FileGrows ==
  ASSUME NEW n \in Nat, NEW f, IsFile(f, n)
  PROVE  IsFile(f, n + 1)
BY DEF IsFile

\* Nothing is written and nothing runs.
LEMMA SetInit == Init => SetInv
<1> SUFFICES ASSUME Init PROVE SetInv
  OBVIOUS
<1>1. FilesInv
  BY PluginAssumption, EmptyPlain DEF Init, FilesInv, IsFile, Missing
<1>2. server = Down /\ client = Down /\ outcome = "none" /\ ~Down.up
  BY DEF Init, Down
<1>3. ProcInv /\ PastedSetupWorks
  BY <1>2 DEF ProcInv, PastedSetupWorks
<1> QED BY <1>1, <1>3, KeyInit DEF SetInv

\* The files under every step.
LEMMA FilesStep ==
  ASSUME FilesInv, [Next]_vars
  PROVE  FilesInv'
<1>0. gens \in Nat /\ MaxGens \in Nat
  BY PluginAssumption DEF FilesInv
<1>1. CASE GenKey
  <2>1. /\ gen.at = "idle" /\ gens < MaxGens /\ gens' = gens + 1 /\ key_file' = Torn
        /\ list_file' = list_file /\ copy' = copy /\ printed' = printed
    BY <1>1 DEF GenKey
  <2>2. PICK name \in Names : gen' = [at |-> "key", name |-> name]
    BY <1>1 DEF GenKey
  <2>3. IsPlain(name)
    BY PrintedAssumption
  <2>4. IsFile(key_file', gens') /\ IsFile(list_file', gens') /\ IsFile(copy', gens')
    <3>1. IsFile(Torn, gens')
      BY DEF IsFile
    <3> QED BY <1>0, <2>1, <3>1, FileGrows DEF FilesInv
  <2>5. printed.key \in 0 .. gens /\ Torn.is # "missing"
    BY DEF FilesInv, Torn
  <2>6. gens' \in 0 .. MaxGens /\ printed'.key \in 0 .. gens' /\ printed'.key < gens'
    BY <1>0, <2>1, <2>5
  <2>7. gen'.at = "key" /\ gen'.name = name
    BY <2>2
  <2> QED BY <2>1, <2>2, <2>3, <2>4, <2>5, <2>6, <2>7 DEF FilesInv
<1>2. CASE GenList
  <2>1. /\ gen.at = "key" /\ gen' = [gen EXCEPT !.at = "list"] /\ key_file' = Whole(gens)
        /\ list_file' = Torn /\ gens' = gens /\ copy' = copy /\ printed' = printed
    BY <1>2 DEF GenList
  <2>2. gen' = [at |-> "list", name |-> gen.name] /\ printed.key < gens /\ printed.key \in 0 .. gens
    BY <2>1 DEF FilesInv
  <2>3. IsFile(Whole(gens), gens) /\ IsFile(Torn, gens) /\ Whole(gens).is = "whole"
    BY <1>0, <2>2 DEF IsFile, Whole
  <2> QED BY <2>1, <2>2, <2>3 DEF FilesInv
<1>3. CASE GenPrint
  <2>1. /\ gen.at = "list" /\ gen' = [gen EXCEPT !.at = "idle"] /\ list_file' = Whole(gens)
        /\ printed' = [key |-> gens, name |-> gen.name]
        /\ gens' = gens /\ key_file' = key_file /\ copy' = copy
    BY <1>3 DEF GenPrint
  <2>2. gen' = [at |-> "idle", name |-> gen.name] /\ printed.key < gens /\ printed.key \in 0 .. gens
        /\ key_file = Whole(gens) /\ IsPlain(gen.name)
    BY <2>1 DEF FilesInv
  <2>3. IsFile(Whole(gens), gens)
    BY <1>0, <2>2 DEF IsFile
  <2>4. printed'.key = gens /\ printed'.name = gen.name /\ gens \in 0 .. gens
    BY <1>0, <2>1
  <2> QED BY <2>1, <2>2, <2>3, <2>4 DEF FilesInv
<1>4. CASE GenStopped
  <2>1. /\ gen.at # "idle" /\ gen' = [gen EXCEPT !.at = "idle"] /\ list_file' = list_file
        /\ gens' = gens /\ key_file' = key_file /\ copy' = copy /\ printed' = printed
    BY <1>4 DEF GenStopped, files
  <2>2. gen' = [at |-> "idle", name |-> gen.name] /\ printed.key < gens /\ printed.key \in 0 .. gens
    BY <2>1 DEF FilesInv
  <2> QED BY <1>0, <2>1, <2>2 DEF FilesInv
<1>5. CASE Distribute
  <2>1. /\ copy' = list_file /\ gen' = gen /\ list_file' = list_file
        /\ gens' = gens /\ key_file' = key_file /\ printed' = printed
    BY <1>5 DEF Distribute
  <2> QED BY <2>1 DEF FilesInv
<1>6. CASE \/ UNCHANGED vars \/ Type \/ StartServer \/ Swap \/ StopServer
           \/ StartClient \/ StopClient \/ ConnectTcp \/ ConnectH3
  <2>1. gens' = gens /\ gen' = gen /\ files' = files
    BY <1>6 DEF vars, Type, StartServer, Swap, StopServer, StartClient, StopClient,
       ConnectTcp, ConnectH3
  <2>2. key_file' = key_file /\ list_file' = list_file /\ copy' = copy /\ printed' = printed
    BY <2>1 DEF files
  <2> QED BY <2>1, <2>2 DEF FilesInv
<1> QED BY <1>1, <1>2, <1>3, <1>4, <1>5, <1>6 DEF Next

-----------------------------------------------------------------------------
(* What the processes start with.                                          *)

\* A server that starts: its configuration is of a text, and the file is read.
LEMMA ServerStarts ==
  ASSUME FilesInv, StartServer
  PROVE  \/ /\ ServerOk(server') /\ outcome' = "none"
         \/ server' = server /\ outcome' = "exit" /\ key_file.is = "torn"
<1>1. PICK t \in ServerTexts :
        LET cfg == Config(t) IN
        IF cfg # NoCfg /\ CanListen(ServerEnv.remote_host) /\ KeyReadable(cfg)
        THEN /\ server' = [Down EXCEPT !.up = TRUE, !.cfg = cfg, !.key = KeyRead(cfg),
                             !.cert = IF cfg.acme THEN "bootstrap" ELSE "static", !.read = gens]
             /\ outcome' = "none"
        ELSE outcome' = "exit" /\ UNCHANGED server
  BY DEF StartServer
<1>2. PICK cfg : cfg = Config(t)
  OBVIOUS
<1>3. /\ cfg # NoCfg /\ \E s \in ServerSetups : cfg.ws_path = Get(Assigned(s), "path")
      /\ cfg.ech.on => cfg.ech.key_file = KEY_PATH /\ printed.key # 0
  BY <1>2, ServerTextCfg DEF FilesInv
<1>4. CASE KeyReadable(cfg)
  <2>1. /\ server' = [Down EXCEPT !.up = TRUE, !.cfg = cfg, !.key = KeyRead(cfg),
                        !.cert = IF cfg.acme THEN "bootstrap" ELSE "static", !.read = gens]
        /\ outcome' = "none"
    BY <1>1, <1>2, <1>3, <1>4, AddressAssumption
  <2>2. server'.cfg = cfg
    BY <2>1 DEF Down
  <2> QED BY <1>3, <2>1, <2>2 DEF ServerOk
<1>5. CASE ~KeyReadable(cfg)
  <2>1. outcome' = "exit" /\ server' = server
    BY <1>1, <1>2, <1>5
  <2>2. cfg.ech.on /\ key_file.is # "whole" /\ printed.key # 0
    BY <1>3, <1>5 DEF KeyReadable
  <2>3. gens > 0 /\ key_file.is # "missing"
    BY <2>2 DEF FilesInv
  <2>4. key_file.is = "torn"
    BY <2>2, <2>3 DEF FilesInv, IsFile, Missing, Torn, Whole
  <2> QED BY <2>1, <2>4
<1> QED BY <1>4, <1>5

\* A client that starts, likewise; a TCP client has read its list.
LEMMA ClientStarts ==
  ASSUME FilesInv, StartClient
  PROVE  \/ ClientOk(client', gens) /\ outcome' = "none"
         \/ client' = client /\ outcome' = "exit" /\ copy.is = "missing"
<1>1. PICK t \in ClientTexts :
        LET cfg == Config(t) IN
        IF /\ cfg # NoCfg
           /\ CanListen(ClientEnv.local_host)
           /\ cfg.transport = "Tcp" =>
                /\ cfg.fingerprint # None => Resolves(cfg.fingerprint)
                /\ ListReadable(cfg)
        THEN /\ client' = [Down EXCEPT !.up = TRUE, !.cfg = cfg,
                             !.read = IF cfg.ech.file THEN copy.key ELSE printed.key,
                             !.list = IF cfg.transport = "Tcp" THEN ListRead(cfg) ELSE Missing]
             /\ outcome' = "none"
        ELSE outcome' = "exit" /\ UNCHANGED client
  BY DEF StartClient
<1>2. PICK cfg : cfg = Config(t)
  OBVIOUS
<1>3. gens \in 0 .. MaxGens /\ printed.key \in 0 .. gens /\ MaxGens \in Nat
  BY PluginAssumption DEF FilesInv
<1>4. /\ cfg # NoCfg /\ \E s \in ClientSetups : cfg.ws_path = Get(Assigned(s), "path")
      /\ cfg.fingerprint # None => Resolves(cfg.fingerprint)
      /\ cfg.transport \in {"Tcp", "H3"}
      /\ cfg.ech.on => printed.key # 0
      /\ cfg.ech.on /\ ~cfg.ech.file => cfg.ech.inline = B64(printed.key)
  <2>1. printed.key \in 0 .. MaxGens
    BY <1>3
  <2> QED BY <1>2, <2>1, ClientTextCfg
<1>5. cfg.ech.on => gens > 0 /\ printed.key \in 1 .. gens /\ printed.key \in 1 .. MaxGens
  BY <1>3, <1>4
<1>6. cfg.ech.on /\ ~cfg.ech.file =>
        Decodes(cfg.ech.inline) /\ Decoded(cfg.ech.inline) = printed.key
  BY <1>4, <1>5, DecodedIs
<1>7. CASE cfg.transport = "Tcp" => ListReadable(cfg)
  <2> DEFINE read == IF cfg.ech.file THEN copy.key ELSE printed.key
             list == IF cfg.transport = "Tcp" THEN ListRead(cfg) ELSE Missing
  <2>1. client' = [Down EXCEPT !.up = TRUE, !.cfg = cfg, !.read = read, !.list = list]
        /\ outcome' = "none"
    BY <1>1, <1>2, <1>4, <1>7, AddressAssumption
  <2> HIDE DEF read, list
  <2>2. client'.cfg = cfg /\ client'.read = read /\ client'.list = list
    BY <2>1 DEF Down
  <2>3. ASSUME cfg.ech.on, ~cfg.ech.file
        PROVE  read \in 1 .. gens /\ cfg.ech.inline = B64(read)
    BY <1>4, <1>5, <2>3 DEF read
  <2>4. ASSUME cfg.ech.on, cfg.transport = "Tcp"
        PROVE  IsFile(list, gens) /\ list.key = read
    <3>1. CASE cfg.ech.file
      BY <2>4, <3>1 DEF list, read, ListRead, FilesInv
    <3>2. CASE ~cfg.ech.file
      <4>1. list = Whole(printed.key) /\ read = printed.key
        BY <1>6, <2>4, <3>2 DEF list, read, ListRead
      <4> QED BY <1>5, <2>4, <4>1 DEF IsFile, Whole
    <3> QED BY <3>1, <3>2
  <2> QED BY <1>4, <1>5, <2>1, <2>2, <2>3, <2>4 DEF ClientOk
<1>8. CASE ~(cfg.transport = "Tcp" => ListReadable(cfg))
  <2>1. outcome' = "exit" /\ client' = client
    BY <1>1, <1>2, <1>8
  <2>2. ~ListReadable(cfg)
    BY <1>8
  <2>3. cfg.ech.on /\ cfg.ech.file /\ copy.is = "missing"
    BY <1>6, <2>2 DEF ListReadable
  <2> QED BY <2>1, <2>3
<1> QED BY <1>7, <1>8

\* The processes under every step.
LEMMA ProcStep ==
  ASSUME KeyInv, FilesInv, ProcInv, [Next]_vars
  PROVE  ProcInv'
<1>0. gens \in Nat
  BY DEF KeyInv, ServerShape
<1>1. CASE StartServer
  <2>1. client' = client /\ gens' = gens
    BY <1>1 DEF StartServer
  <2>2. ServerOk(server') \/ server' = server
    BY <1>1, ServerStarts
  <2> QED BY <2>1, <2>2 DEF ProcInv
<1>2. CASE StartClient
  <2>1. server' = server /\ gens' = gens
    BY <1>2 DEF StartClient
  <2>2. ClientOk(client', gens) \/ client' = client
    BY <1>2, ClientStarts
  <2> QED BY <2>1, <2>2 DEF ProcInv
<1>3. CASE Swap \/ ConnectH3
  <2>1. client' = client /\ gens' = gens /\ server.up
    BY <1>3 DEF Swap, ConnectH3
  <2>2. server'.cfg = server.cfg
    BY <1>3 DEF Swap, ConnectH3, KeyInv, ServerShape
  <2> QED BY <2>1, <2>2 DEF ProcInv, ServerOk
<1>4. CASE StopServer
  BY <1>4 DEF StopServer, ProcInv, Down
<1>5. CASE StopClient
  BY <1>5 DEF StopClient, ProcInv, Down
<1>6. CASE GenKey
  <2>1. client' = client /\ gens' = gens + 1 /\ server' = server
    BY <1>6 DEF GenKey
  <2>2. ASSUME ClientOk(client, gens) PROVE ClientOk(client, gens + 1)
    <3>1. \A k \in 1 .. gens : k \in 1 .. gens + 1
      BY <1>0
    <3>2. IsFile(client.list, gens) => IsFile(client.list, gens + 1)
      BY <1>0, FileGrows
    <3> QED BY <1>0, <2>2, <3>1, <3>2 DEF ClientOk
  <2> QED BY <2>1, <2>2 DEF ProcInv
<1>7. CASE \/ UNCHANGED vars \/ Type \/ GenList \/ GenPrint \/ GenStopped \/ Distribute
           \/ ConnectTcp
  <2>1. gens' = gens /\ client' = client /\ server' = server
    BY <1>7 DEF vars, Type, GenList, GenPrint, GenStopped, Distribute, ConnectTcp
  <2> QED BY <2>1 DEF ProcInv
<1> QED BY <1>1, <1>2, <1>3, <1>4, <1>5, <1>6, <1>7 DEF Next

-----------------------------------------------------------------------------
(* What a connection meets.                                                *)

\* With the last list and the last key, only the certificate can fail.
LEMMA LastKeysMeet ==
  ASSUME ServerOk(server), ClientOk(client, gens), server.cfg.ech.on, client.cfg.ech.on,
         NEW list, list = Whole(gens)
  PROVE  Handshake(list, gens) \in {"bad_cert", "up"}
<1>1. server.cfg.ws_path = client.cfg.ws_path
  BY SetupAssumption DEF ServerOk, ClientOk
<1>2. list.is = "whole" /\ list.key = gens
  BY DEF Whole
<1> QED BY <1>1, <1>2 DEF Handshake

\* What UpToDate says of files and keys.
LEMMA UpToDateKeys ==
  ASSUME KeyInv, FilesInv, ProcInv, UpToDate
  PROVE  /\ gens \in 1 .. MaxGens /\ key_file = Whole(gens) /\ copy = Whole(gens)
         /\ server.up /\ server.cfg.ech.on /\ client.up /\ client.cfg.ech.on
         /\ ServerOk(server) /\ ClientOk(client, gens)
         /\ server.key = gens /\ KeyReadable(server.cfg) /\ KeyRead(server.cfg) = gens
         /\ ListReadable(client.cfg) /\ ListRead(client.cfg) = Whole(gens)
         /\ client.cfg.transport = "Tcp" => client.list = Whole(gens)
<1>1. /\ gen.at = "idle" /\ printed.key = gens /\ copy = list_file
      /\ server.up /\ server.cfg.ech.on /\ server.read = gens
      /\ client.up /\ client.cfg.ech.on /\ client.read = gens
  BY DEF UpToDate
<1>2. ServerOk(server) /\ ClientOk(client, gens)
  BY <1>1 DEF ProcInv
<1>3. gens > 0 /\ gens \in 1 .. MaxGens
  <2>1. gens > 0 /\ gens \in 0 .. MaxGens /\ MaxGens \in Nat
    BY <1>1, <1>2, PluginAssumption DEF ClientOk, FilesInv
  <2> QED BY <2>1
<1>4. key_file = Whole(gens) /\ copy = Whole(gens)
  BY <1>1, <1>3 DEF FilesInv
<1>5. server.key = gens
  BY <1>1 DEF KeyInv
<1>6. KeyReadable(server.cfg) /\ KeyRead(server.cfg) = gens
  BY <1>1, <1>2, <1>4 DEF ServerOk, KeyReadable, KeyRead, Whole
<1>7. ListReadable(client.cfg) /\ ListRead(client.cfg) = Whole(gens)
  <2>1. CASE client.cfg.ech.file
    BY <1>1, <1>4, <2>1 DEF ListReadable, ListRead, Whole
  <2>2. CASE ~client.cfg.ech.file
    <3>1. client.cfg.ech.inline = B64(gens)
      BY <1>1, <1>2, <2>2 DEF ClientOk
    <3>2. Decodes(client.cfg.ech.inline) /\ Decoded(client.cfg.ech.inline) = gens
      BY <1>3, <3>1, DecodedIs
    <3> QED BY <1>1, <2>2, <3>2 DEF ListReadable, ListRead
  <2> QED BY <2>1, <2>2
<1>8. ASSUME client.cfg.transport = "Tcp" PROVE client.list = Whole(gens)
  <2>1. IsFile(client.list, gens) /\ client.list.key = gens
    BY <1>1, <1>2, <1>8 DEF ClientOk
  <2>2. client.list # Missing /\ client.list # Torn
    BY <1>3, <2>1 DEF Missing, Torn
  <2>3. PICK k \in 1 .. gens : client.list = Whole(k)
    BY <2>1, <2>2 DEF IsFile
  <2>4. k = gens
    BY <2>1, <2>3 DEF Whole
  <2> QED BY <2>3, <2>4
<1> QED BY <1>1, <1>2, <1>3, <1>4, <1>5, <1>6, <1>7, <1>8

\* A connection changes nothing that UpToDate looks at.
LEMMA UpToDateStays ==
  ASSUME KeyInv, ConnectTcp \/ ConnectH3
  PROVE  /\ UpToDate' <=> UpToDate
         /\ key_file' = key_file /\ copy' = copy /\ client' = client
         /\ server'.cfg = server.cfg
<1>1. gens' = gens /\ gen' = gen /\ files' = files /\ client' = client
  BY DEF ConnectTcp, ConnectH3
<1>2. key_file' = key_file /\ list_file' = list_file /\ copy' = copy /\ printed' = printed
  BY <1>1 DEF files
<1>3. server'.up = server.up /\ server'.cfg = server.cfg /\ server'.read = server.read
  BY DEF ConnectTcp, ConnectH3, KeyInv, ServerShape
<1> QED BY <1>1, <1>2, <1>3 DEF UpToDate

\* Over TCP the client's list and the acceptor's key are of the same run.
LEMMA PastedTcp ==
  ASSUME KeyInv, FilesInv, ProcInv, ConnectTcp
  PROVE  PastedSetupWorks'
<1>1. outcome' = Handshake(client.list, server.key)
  BY AddressesAgree DEF ConnectTcp
<1>2. outcome' # "exit"
  BY <1>1 DEF Handshake
<1>3. ASSUME UpToDate PROVE outcome' \in {"bad_cert", "up"}
  <2>1. client.cfg.transport = "Tcp"
    BY DEF ConnectTcp
  <2>2. client.list = Whole(gens) /\ server.key = gens /\ ServerOk(server)
        /\ ClientOk(client, gens) /\ server.cfg.ech.on /\ client.cfg.ech.on
    BY <1>3, <2>1, UpToDateKeys
  <2> QED BY <1>1, <2>2, LastKeysMeet
<1> QED BY <1>2, <1>3, UpToDateStays DEF PastedSetupWorks

\* Over HTTP/3 the list is read in the session, and the listener's key is the
\* acceptor's or is read now.
LEMMA PastedH3 ==
  ASSUME KeyInv, FilesInv, ProcInv, ConnectH3
  PROVE  PastedSetupWorks'
<1>1. \/ outcome' = "no_list" /\ ~ListReadable(client.cfg)
      \/ outcome' = "unreachable" /\ ~(server.cfg.http3 /\ CanEnsure)
      \/ outcome' = Handshake(ListRead(client.cfg), Ensured.key)
  BY AddressesAgree DEF ConnectH3
<1>2. outcome' # "exit"
  BY <1>1 DEF Handshake
<1>3. ASSUME UpToDate
      PROVE  outcome' \in {"bad_cert", "up"} \/ (outcome' = "unreachable" /\ ~server.cfg.http3)
  <2>1. /\ server.key = gens /\ KeyReadable(server.cfg) /\ KeyRead(server.cfg) = gens
        /\ ListReadable(client.cfg) /\ ListRead(client.cfg) = Whole(gens)
        /\ ServerOk(server) /\ ClientOk(client, gens) /\ server.cfg.ech.on /\ client.cfg.ech.on
    BY <1>3, UpToDateKeys
  <2>2. CanEnsure
    BY <2>1 DEF CanEnsure
  <2>3. Ensured.key = gens
    <3>1. CASE server.h3.built /\ server.h3.generation = server.generation
      <4>1. server.read = gens /\ ~(gens > server.read)
        BY <1>3 DEF UpToDate, KeyInv, ServerShape
      <4>2. server.key = server.h3.key
        BY <3>1, <4>1 DEF KeyInv, OneEchKey
      <4> QED BY <2>1, <3>1, <4>2 DEF Ensured
    <3>2. CASE ~(server.h3.built /\ server.h3.generation = server.generation)
      <4>1. Ensured = [built |-> TRUE, generation |-> server.generation, key |-> gens]
        BY <2>1, <3>2 DEF Ensured
      <4> QED BY <4>1
    <3> QED BY <3>1, <3>2
  <2>4. Handshake(ListRead(client.cfg), gens) \in {"bad_cert", "up"}
    BY <2>1, LastKeysMeet
  <2> QED BY <1>1, <2>1, <2>2, <2>3, <2>4
<1>4. client.cfg.transport = "H3"
  BY DEF ConnectH3
<1> QED BY <1>2, <1>3, <1>4, UpToDateStays DEF PastedSetupWorks

\* Outcomes under every step.
LEMMA PastedStep ==
  ASSUME KeyInv, FilesInv, ProcInv, PastedSetupWorks, [Next]_vars
  PROVE  PastedSetupWorks'
<1>1. CASE outcome' = "none"
  BY <1>1 DEF PastedSetupWorks
<1>2. CASE StartServer
  <2>1. ~server.up /\ key_file' = key_file
    BY <1>2 DEF StartServer, files
  <2>2. CASE server' = server /\ outcome' = "exit" /\ key_file.is = "torn"
    BY <2>1, <2>2 DEF PastedSetupWorks, UpToDate
  <2> QED BY <1>1, <1>2, <2>2, ServerStarts
<1>3. CASE StartClient
  <2>1. ~client.up /\ copy' = copy
    BY <1>3 DEF StartClient, files
  <2>2. CASE client' = client /\ outcome' = "exit" /\ copy.is = "missing"
    BY <2>1, <2>2 DEF PastedSetupWorks, UpToDate
  <2> QED BY <1>1, <1>3, <2>2, ClientStarts
<1>4. CASE Type
  <2>1. ~server.up /\ server' = server /\ outcome' = outcome /\ files' = files
    BY <1>4 DEF Type
  <2>2. key_file' = key_file /\ copy' = copy
    BY <2>1 DEF files
  <2> QED BY <2>1, <2>2 DEF PastedSetupWorks, UpToDate
<1>5. CASE UNCHANGED vars
  BY <1>5 DEF vars, files, PastedSetupWorks, UpToDate
<1>6. CASE \/ GenKey \/ GenList \/ GenPrint \/ GenStopped \/ Distribute \/ Swap
           \/ StopServer \/ StopClient
  <2>1. outcome' = "none"
    BY <1>6 DEF GenKey, GenList, GenPrint, GenStopped, Distribute, Swap, StopServer, StopClient
  <2> QED BY <1>1, <2>1
<1> QED BY <1>2, <1>3, <1>4, <1>5, <1>6, PastedTcp, PastedH3 DEF Next

\* With the last keys on both sides the client is never refused for its ECH, and no
\* process exits over the printed options unless a file is torn or missing.
THEOREM PastedCorrect == Spec => []PastedSetupWorks
<1>1. SetInv /\ [Next]_vars => SetInv'
  BY KeyStep, FilesStep, ProcStep, PastedStep DEF SetInv
<1>2. SetInv => PastedSetupWorks
  BY DEF SetInv
<1> QED BY <1>1, <1>2, SetInit, PTL DEF Spec

=============================================================================
