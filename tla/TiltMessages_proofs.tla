------------------------ MODULE TiltMessages_proofs -------------------------
(***************************************************************************)
(* Proofs about TiltMessages: its types, that a shade with another key is  *)
(* found out in the handshake, that either side settles on the same        *)
(* version, and that a request takes no answer but its own, for any        *)
(* script, keys, offers and widths.                                        *)
(***************************************************************************)
EXTENDS TiltMessages, TLAPS

\* What is known of a sequence of frames: that it is one, and its elements.
IsSeq(s) == \E S : s \in Seq(S)
Elems(s) == {s[i] : i \in 1..Len(s)}

LEMMA EmptySeq == IsSeq(<<>>) /\ Elems(<<>>) = {}
<1>1. <<>> \in Seq({})
  OBVIOUS
<1> QED
  BY <1>1 DEF IsSeq, Elems

LEMMA AppendSeq ==
  ASSUME NEW s, IsSeq(s), NEW e
  PROVE  IsSeq(Append(s, e)) /\ Elems(Append(s, e)) \subseteq Elems(s) \cup {e}
<1>1. PICK S : s \in Seq(S)
  BY DEF IsSeq
<1>2. s \in Seq(S \cup {e})
  BY <1>1
<1>3. /\ Append(s, e) \in Seq(S \cup {e}) /\ Len(Append(s, e)) = Len(s) + 1
      /\ \A i \in 1..(Len(s) + 1) :
            Append(s, e)[i] = IF i <= Len(s) THEN s[i] ELSE e
  BY <1>2
<1>4. Len(s) \in Nat
  BY <1>1
<1>5. \A i \in 1..Len(Append(s, e)) : Append(s, e)[i] \in Elems(s) \cup {e}
  BY <1>3, <1>4 DEF Elems
<1> QED
  BY <1>3, <1>5 DEF IsSeq, Elems

LEMMA TailSeq ==
  ASSUME NEW s, IsSeq(s), s # <<>>
  PROVE  /\ IsSeq(Tail(s)) /\ Elems(Tail(s)) \subseteq Elems(s)
         /\ Head(s) \in Elems(s)
<1>1. PICK S : s \in Seq(S)
  BY DEF IsSeq
<1>2. /\ Tail(s) \in Seq(S) /\ Len(s) \in Nat \ {0} /\ Len(Tail(s)) = Len(s) - 1
      /\ \A i \in 1..(Len(s) - 1) : Tail(s)[i] = s[i + 1]
      /\ Head(s) = s[1]
  BY <1>1
<1>3. \A i \in 1..Len(Tail(s)) : Tail(s)[i] \in Elems(s)
  BY <1>2 DEF Elems
<1> QED
  BY <1>2, <1>3 DEF IsSeq, Elems

\* Two frames appended at once.
LEMMA TwiceSeq ==
  ASSUME NEW s, IsSeq(s), NEW e
  PROVE  IsSeq(s \o <<e, e>>) /\ Elems(s \o <<e, e>>) \subseteq Elems(s) \cup {e}
<1>1. PICK S : s \in Seq(S)
  BY DEF IsSeq
<1>2. s \in Seq(S \cup {e}) /\ <<e, e>> \in Seq(S \cup {e}) /\ Len(s) \in Nat
  BY <1>1
<1>3. /\ s \o <<e, e>> \in Seq(S \cup {e}) /\ Len(s \o <<e, e>>) = Len(s) + 2
      /\ \A i \in 1..(Len(s) + 2) :
            (s \o <<e, e>>)[i] = IF i <= Len(s) THEN s[i] ELSE <<e, e>>[i - Len(s)]
  BY <1>2
<1>4. <<e, e>>[1] = e /\ <<e, e>>[2] = e
  OBVIOUS
<1>5. ASSUME NEW i \in 1..Len(s \o <<e, e>>)
      PROVE  (s \o <<e, e>>)[i] \in Elems(s) \cup {e}
  <2>1. CASE i <= Len(s)
    BY <1>2, <1>3, <2>1 DEF Elems
  <2>2. CASE i > Len(s)
    <3>1. i - Len(s) = 1 \/ i - Len(s) = 2
      BY <1>2, <1>3, <2>2
    <3> QED
      BY <1>2, <1>3, <1>4, <2>2, <3>1
  <2> QED
    BY <1>2, <1>3, <2>1, <2>2
<1> QED
  BY <1>3, <1>5 DEF IsSeq, Elems

-----------------------------------------------------------------------------
\* The proof of the key in a nonce response is that of the shade's own key.
Sound(f) ==
    /\ {"layer", "command", "value"} \subseteq DOMAIN f
    /\ f.layer = "crypto" /\ f.command = "nonce" => f.value = shade.key

\* A shade that got past the nonce has the configured key.
KeyInv ==
    /\ IsSeq(up) /\ IsSeq(down) /\ IsSeq(responses)
    /\ \A f \in Elems(down) \cup Elems(responses) : Sound(f)
    /\ \A f \in Elems(up) : f.layer = "application" => shade.key = Key
    /\ step > 3 => shade.key = Key
    /\ phase # "ended" => step <= Len(Script)

IInv == TypeOK /\ KeyInv

LEMMA ScriptFacts ==
  /\ Len(Script) \in Nat /\ Len(Script) > 3
  /\ Script[1] = "versions" /\ Script[2] = "select" /\ Script[3] = "nonce"
<1>1. Len(Script) \in Nat /\ Len(Script) > 3 /\ SubSeq(Script, 1, 3) = Handshake
  BY ScriptAssumption
<1>2. \A i \in 1..3 : SubSeq(Script, 1, 3)[i] = Script[i]
  BY <1>1, ScriptAssumption
<1>3. Handshake[1] = "versions" /\ Handshake[2] = "select" /\ Handshake[3] = "nonce"
  BY DEF Handshake
<1> QED
  BY <1>1, <1>2, <1>3

LEMMA InitInv == Init => IInv
  BY ScriptFacts, WidthAssumption, BoundAssumption, EmptySeq DEF Init, IInv, TypeOK, KeyInv

LEMMA BestIsSupported ==
  ASSUME NEW r, Common(r) # {} PROVE Best(Common(r)) \in Supported
<1>1. Common(r) \in {{1}, {2}, {1, 2}}
  BY DEF Common, Supported
<1>2. \E v \in Common(r) : \A w \in Common(r) : w <= v
  BY <1>1
<1>3. Best(Common(r)) \in Common(r)
  BY <1>2 DEF Best
<1> QED
  BY <1>3 DEF Common

\* What an accepted response tells, request by request.
LEMMA AcceptedVersions ==
  ASSUME NEW r, step = 1, "ok" \in Verdicts(r) PROVE Common(r) # {}
  BY ScriptFacts DEF Verdicts, VersionsVerdict, CryptoVerdict, Corrupted

LEMMA AcceptedNonce ==
  ASSUME NEW r, Sound(r), step = 3, "ok" \in Verdicts(r) PROVE shade.key = Key
<1>1. "ok" \in NonceVerdict(r)
  BY ScriptFacts DEF Verdicts
<1>2. r.layer = "crypto" /\ r.intact /\ r.command = "nonce"
  BY <1>1 DEF NonceVerdict, CryptoVerdict, Corrupted
<1>3. r.value = Key
  BY <1>1, <1>2 DEF NonceVerdict
<1> QED
  BY <1>2, <1>3 DEF Sound

\* An answer of the shade tells its own key.
LEMMA AnswerIsSound ==
  ASSUME NEW q, NEW a \in Answers(q) PROVE Sound(a)
<1>1. CASE q.layer = "crypto"
  <2>1. CASE a = Crypto(q.of, "ack", q.command)
    BY <2>1 DEF Crypto, Sound
  <2>2. CASE \E v \in Values(q.command) : a = Crypto(q.of, q.command, v)
    BY <2>2 DEF Crypto, Sound, Values
  <2> QED
    BY <1>1, <2>1, <2>2 DEF Answers
<1>2. CASE q.layer # "crypto"
  BY <1>2 DEF Answers, Application, Sound
<1> QED
  BY <1>1, <1>2

LEMMA NextInv == IInv /\ [Next]_vars => IInv'
<1> SUFFICES ASSUME IInv, [Next]_vars PROVE IInv'
  OBVIOUS
<1> USE ScriptFacts DEF IInv, TypeOK, KeyInv, clientVars
<1>1. CASE Send
  <2>1. /\ IsSeq(up') /\ Elems(up') \subseteq Elems(up) \cup {Request}
        /\ UNCHANGED <<step, outcome, chosen, responses, taken, shade, down, doubles>>
        /\ phase = "ready" /\ phase' = "await"
    BY <1>1, AppendSeq DEF Send
  <2>2. Request.layer = "application" => step > 3
    <3>1. CASE Handshaking
      BY <3>1 DEF Request, Crypto
    <3>2. CASE ~Handshaking
      BY <3>2 DEF Handshaking
    <3> QED
      BY <3>1, <3>2
  <2>3. ids'.counter \in 1..LastCounter /\ ids'.id \in 1..LastId
    <3>1. ids' = ids \/ TakeIds
      BY <1>1 DEF Send
    <3>2. /\ ids.counter \in 1..LastCounter /\ ids.id \in 1..LastId
          /\ LastCounter \in Nat \ {0} /\ LastId \in Nat \ {0}
      BY WidthAssumption
    <3>3. ASSUME TakeIds
          PROVE  /\ ids'.counter = IF ids.counter = LastCounter THEN 1 ELSE ids.counter + 1
                 /\ ids'.id = IF ids.id = LastId THEN 1 ELSE ids.id + 1
      BY <3>3 DEF TakeIds
    <3> HIDE DEF IInv
    <3> QED
      BY <3>1, <3>2, <3>3
  <2>4. \A f \in Elems(up') : f.layer = "application" => shade'.key = Key
    BY <2>1, <2>2
  <2>5. \A f \in Elems(down') \cup Elems(responses') : Sound(f)'
    BY <2>1 DEF Sound
  <2> QED
    BY <2>1, <2>3, <2>4, <2>5
<1>2. CASE RefuseStale
  BY <1>2 DEF RefuseStale, End, Sound
<1>3. CASE Receive
  <2> DEFINE r == Head(responses)
  <2>1. /\ phase = "await" /\ IsSeq(responses') /\ r \in Elems(responses)
        /\ Elems(responses') \subseteq Elems(responses)
        /\ UNCHANGED <<ids, shade, up, down, doubles>>
    BY <1>3, TailSeq DEF Receive
  <2>2. PICK verdict \in Verdicts(r) :
          IF verdict = "ok"
          THEN /\ Advance
               /\ taken' = Append(taken, r.of)
               /\ chosen' = IF step = 1 THEN Best(Common(r)) ELSE chosen
          ELSE End(verdict) /\ UNCHANGED <<taken, chosen>>
    BY <1>3 DEF Receive
  <2> HIDE DEF r
  <2>3. Sound(r)
    BY <2>1
  <2>4. \A f \in Elems(down') \cup Elems(responses') : Sound(f)'
    BY <2>1 DEF Sound
  <2>5. CASE verdict = "ok"
    <3>1. chosen' \in Supported \cup {0}
      BY <2>2, <2>5, AcceptedVersions, BestIsSupported
    <3>2. step' > 3 => shade.key = Key
      <4>1. step' = step + 1 /\ step \in 1..Len(Script)
        BY <2>1, <2>2, <2>5 DEF Advance
      <4> QED
        BY <2>2, <2>3, <2>5, <4>1, AcceptedNonce
    <3> QED
      BY <2>1, <2>2, <2>4, <2>5, <3>1, <3>2 DEF Advance
  <2>6. CASE verdict # "ok"
    <3>1. verdict \in {"auth", "protocol"}
      BY <2>6 DEF Verdicts, VersionsVerdict, SelectionVerdict, NonceVerdict,
           ApplicationVerdict, CryptoVerdict, Corrupted
    <3> QED
      BY <2>1, <2>2, <2>4, <2>6, <3>1 DEF End
  <2> QED
    BY <2>5, <2>6
<1>4. CASE TimeOut
  <2>1. Script[step] = "write" => step # 3 /\ step # 2 /\ step # 1
    OBVIOUS
  <2>2. step \in 1..Len(Script)
    BY <1>4 DEF TimeOut
  <2>3. CASE Script[step] = "write"
    BY <1>4, <2>1, <2>2, <2>3 DEF TimeOut, Advance, Sound
  <2>4. CASE Script[step] # "write"
    BY <1>4, <2>4 DEF TimeOut, End, Sound
  <2> QED
    BY <2>3, <2>4
<1>5. CASE Answer
  <2>1. PICK a \in Answers(Head(up)), twice \in BOOLEAN :
          /\ twice => doubles < MaxDoubles
          /\ doubles' = IF twice THEN doubles + 1 ELSE doubles
          /\ down' = IF twice THEN down \o <<a, a>> ELSE Append(down, a)
          /\ shade' = [shade EXCEPT !.version = Settled(Head(up), a)]
    BY <1>5 DEF Answer
  <2>2. /\ IsSeq(up') /\ Elems(up') \subseteq Elems(up)
        /\ UNCHANGED clientVars
    BY <1>5, TailSeq DEF Answer
  <2>3. IsSeq(down') /\ Elems(down') \subseteq Elems(down) \cup {a}
    BY <2>1, AppendSeq, TwiceSeq
  <2>4. shade'.key = shade.key
    BY <2>1
  <2>5. \A f \in Elems(down') \cup Elems(responses') : Sound(f)'
    BY <2>2, <2>3, <2>4, AnswerIsSound DEF Sound
  <2>6. doubles' \in 0..MaxDoubles
    BY <2>1, BoundAssumption
  <2> QED
    BY <2>2, <2>3, <2>4, <2>5, <2>6
<1>6. CASE Ignore
  <2>1. /\ IsSeq(up') /\ Elems(up') \subseteq Elems(up)
        /\ UNCHANGED <<clientVars, shade, down, doubles>>
    BY <1>6, TailSeq DEF Ignore
  <2> QED
    BY <2>1 DEF Sound
<1>7. CASE Deliver
  <2>1. PICK intact \in BOOLEAN :
          responses' = Append(responses, [Head(down) EXCEPT !.intact = intact])
    BY <1>7 DEF Deliver
  <2> DEFINE r == [Head(down) EXCEPT !.intact = intact]
  <2>2. /\ IsSeq(down') /\ Elems(down') \subseteq Elems(down)
        /\ Head(down) \in Elems(down)
        /\ UNCHANGED <<step, phase, outcome, ids, chosen, taken, shade, up, doubles>>
    BY <1>7, TailSeq DEF Deliver
  <2>3. Sound(Head(down))
    BY <2>2
  <2>4. DOMAIN r = DOMAIN Head(down)
    OBVIOUS
  <2>5. r.layer = Head(down).layer /\ r.command = Head(down).command
        /\ r.value = Head(down).value
    BY <2>3 DEF Sound
  <2>6. Sound(r)
    BY <2>3, <2>4, <2>5 DEF Sound
  <2> HIDE DEF r
  <2>7. IsSeq(responses') /\ Elems(responses') \subseteq Elems(responses) \cup {r}
    BY <2>1, AppendSeq DEF r
  <2>8. \A f \in Elems(down') \cup Elems(responses') : Sound(f)'
    BY <2>2, <2>6, <2>7 DEF Sound
  <2> QED
    BY <2>2, <2>7, <2>8
<1>8. CASE Lose
  <2>1. /\ IsSeq(down') /\ Elems(down') \subseteq Elems(down)
        /\ UNCHANGED <<clientVars, shade, up, doubles>>
    BY <1>8, TailSeq DEF Lose
  <2> QED
    BY <2>1 DEF Sound
<1>9. CASE UNCHANGED vars
  BY <1>9 DEF vars, Sound
<1> QED
  BY <1>1, <1>2, <1>3, <1>4, <1>5, <1>6, <1>7, <1>8, <1>9 DEF Next

\* The types of the session (authenticate and the requests after it).
THEOREM TypeCorrect == Spec => []TypeOK
<1>1. IInv => TypeOK
  BY DEF IInv
<1> QED
  BY InitInv, NextInv, <1>1, PTL DEF Spec

\* A shade with another key is never sent an encrypted request (authenticate).
THEOREM StrangerTheorem == Spec => []StrangerNotAsked
<1>1. IInv => StrangerNotAsked
  BY DEF IInv, KeyInv, Elems, StrangerNotAsked
<1> QED
  BY InitInv, NextInv, <1>1, PTL DEF Spec

-----------------------------------------------------------------------------
\* The invariant of what is said.  The requests go out in order, and answers are older
\* than the requests still on their way; what an answer says is tied to the request it
\* is of: by its command in the handshake, by its counter after it.

Increasing(s) == \A i, j \in 1..Len(s) : i < j => s[i].of < s[j].of

LEMMA AppendIncreasing ==
  ASSUME NEW s, IsSeq(s), Increasing(s), NEW e, \A x \in Elems(s) : x.of < e.of
  PROVE  Increasing(Append(s, e))
<1>1. PICK S : s \in Seq(S)
  BY DEF IsSeq
<1>2. s \in Seq(S \cup {e})
  BY <1>1
<1>3. /\ Len(Append(s, e)) = Len(s) + 1 /\ Len(s) \in Nat
      /\ \A i \in 1..(Len(s) + 1) : Append(s, e)[i] = IF i <= Len(s) THEN s[i] ELSE e
  BY <1>2
<1>4. SUFFICES ASSUME NEW i \in 1..(Len(s) + 1), NEW j \in 1..(Len(s) + 1), i < j
               PROVE  Append(s, e)[i].of < Append(s, e)[j].of
  BY <1>3 DEF Increasing
<1>5. i \in 1..Len(s) /\ Append(s, e)[i] = s[i] /\ s[i] \in Elems(s)
  BY <1>3, <1>4 DEF Elems
<1>6. CASE j <= Len(s)
  BY <1>3, <1>4, <1>5, <1>6 DEF Increasing
<1>7. CASE ~(j <= Len(s))
  BY <1>3, <1>5, <1>7
<1> QED
  BY <1>6, <1>7

LEMMA TailIncreasing ==
  ASSUME NEW s, IsSeq(s), s # <<>>, Increasing(s)
  PROVE  Increasing(Tail(s)) /\ \A x \in Elems(Tail(s)) : Head(s).of < x.of
<1>1. PICK S : s \in Seq(S)
  BY DEF IsSeq
<1>2. /\ Len(s) \in Nat \ {0} /\ Len(Tail(s)) = Len(s) - 1
      /\ \A i \in 1..(Len(s) - 1) : Tail(s)[i] = s[i + 1]
      /\ Head(s) = s[1]
  BY <1>1
<1>3. \A i \in 1..(Len(s) - 1) : i + 1 \in 1..Len(s) /\ 1 < i + 1
  BY <1>2
<1>4. \A i, j \in 1..(Len(s) - 1) : i < j => i + 1 < j + 1
  BY <1>2
<1>5. Increasing(Tail(s))
  BY <1>2, <1>3, <1>4 DEF Increasing
<1>6. 1 \in 1..Len(s)
  BY <1>2
<1> QED
  BY <1>2, <1>3, <1>5, <1>6 DEF Increasing, Elems

\* A request on its way.
Asked(q) ==
    /\ q.of \in 1..Len(Script) /\ q.command = Script[q.of]
    /\ q.of <= 3 <=> q.layer = "crypto"
    /\ q.of > 3 => q.ids[1] = q.of - 3
    /\ q.of = 2 => q.value = chosen

\* An answer of the shade.
Told(f) ==
    /\ {"layer", "command", "value", "intact", "of"} \subseteq DOMAIN f
    /\ f.of \in 1..Len(Script)
    /\ f.of <= 3 =>
          /\ f.layer = "crypto"
          /\ \/ /\ f.command = Script[f.of]
                /\ f.of = 1 => f.value = shade.offer
                /\ f.of = 2 => f.value = shade.version
             \/ /\ f.command = "ack" /\ f.value = Script[f.of]
                /\ f.of = 2 => shade.version = chosen
    /\ f.of > 3 => f.layer = "application" /\ "ids" \in DOMAIN f /\ f.ids[1] = f.of - 3

Answered == Elems(down) \cup Elems(responses)

\* A number is that of a request put already.
Past(i) == i <= step /\ (phase = "ready" => i < step)

UpInv ==
    /\ \A q \in Elems(up) : Asked(q) /\ Past(q.of) /\ (step > 2 => q.of # 2)
    /\ Increasing(up)

DownInv ==
    \A f \in Answered : Told(f) /\ Past(f.of) /\ \A q \in Elems(up) : f.of < q.of

\* _counter and the counter of the request being put.
CounterInv ==
    /\ phase # "ended" /\ step <= 3 => ids.counter = 1
    /\ phase = "ready" /\ step > 3 => ids.counter = step - 3
    /\ phase = "await" /\ step > 3 =>
          ids.sent[1] = step - 3 /\ (step < Len(Script) => ids.counter = step - 2)

VersionInv ==
    /\ {"key", "offer", "version"} \subseteq DOMAIN shade
    /\ step > 1 => chosen = Best(shade.offer \cap Supported)
    /\ step > 2 => chosen = shade.version

TakenInv == taken \in Seq(Nat) /\ Len(taken) = step - 1 /\ OwnAnswer

MessageInv == UpInv /\ DownInv /\ CounterInv /\ VersionInv /\ TakenInv


LEMMA ScriptKinds ==
  /\ \A i \in 1..Len(Script) : i > 3 => Script[i] \in {"read", "write"}
  /\ \A i \in 1..Len(Script) : Script[i] \notin {"ack"}
  /\ \A i \in 1..Len(Script) : /\ Script[i] = "versions" => i = 1
                               /\ Script[i] = "select" => i = 2
                               /\ Script[i] = "nonce" => i = 3
<1>1. \A i \in 1..Len(Script) : i > 3 => Script[i] \in {"read", "write"}
  BY ScriptFacts, ScriptAssumption
<1>2. \A i \in 1..Len(Script) : i > 3 \/ i = 1 \/ i = 2 \/ i = 3
  BY ScriptFacts
<1> QED
  BY <1>1, <1>2, ScriptFacts

LEMMA InitMessage == Init => MessageInv
<1> SUFFICES ASSUME Init PROVE MessageInv
  OBVIOUS
<1>1. Elems(up) = {} /\ Elems(down) = {} /\ Elems(responses) = {} /\ Len(up) = 0
  BY EmptySeq DEF Init
<1>2. UpInv /\ DownInv
  BY <1>1 DEF UpInv, DownInv, Answered, Increasing
<1>3. CounterInv /\ VersionInv
  BY DEF Init, CounterInv, VersionInv
<1>4. TakenInv
  BY DEF Init, TakenInv, OwnAnswer
<1> QED
  BY <1>2, <1>3, <1>4 DEF MessageInv

\* A response passes for the answer to the request it is of, and for no other.
LEMMA AcceptedIsOwn ==
  ASSUME IInv, MessageInv, phase = "await", NEW r \in Elems(responses), "ok" \in Verdicts(r)
  PROVE  r.of = step
<1>1. Told(r) /\ r.of \in 1..Len(Script) /\ step \in 1..Len(Script)
  BY DEF MessageInv, DownInv, Answered, Told, IInv, TypeOK, KeyInv
<1>2. /\ r.layer = "crypto" => r.of <= 3
      /\ r.layer = "application" => r.of > 3
  <2>1. r.of <= 3 \/ r.of > 3
    BY <1>1
  <2> QED
    BY <1>1, <2>1 DEF Told
<1>3. r.of <= 3 => r.command = Script[r.of] \/ (r.command = "ack" /\ r.value = Script[r.of])
  BY <1>1 DEF Told
<1>4. CASE step = 1
  <2>1. r.layer = "crypto" /\ r.command = "versions"
    BY <1>4, ScriptFacts DEF Verdicts, VersionsVerdict, CryptoVerdict, Corrupted
  <2> QED
    BY <1>1, <1>2, <1>3, <1>4, <2>1, ScriptKinds
<1>5. CASE step = 2
  <2>1. r.layer = "crypto" /\ (r.command = "select" \/ (r.command = "ack" /\ r.value = "select"))
    BY <1>5, ScriptFacts DEF Verdicts, SelectionVerdict, CryptoVerdict, Corrupted
  <2> QED
    BY <1>1, <1>2, <1>3, <1>5, <2>1, ScriptKinds
<1>6. CASE step = 3
  <2>1. r.layer = "crypto" /\ r.command = "nonce"
    BY <1>6, ScriptFacts DEF Verdicts, NonceVerdict, CryptoVerdict, Corrupted
  <2> QED
    BY <1>1, <1>2, <1>3, <1>6, <2>1, ScriptKinds
<1>7. CASE step > 3
  <2>1. Script[step] \in {"read", "write"}
    BY <1>1, <1>7, ScriptKinds
  <2>2. r.layer = "application" /\ r.ids[1] = ids.sent[1]
    <3>1. "ok" \in ApplicationVerdict(r)
      BY <2>1 DEF Verdicts
    <3>2. r.layer = "application"
      BY <3>1 DEF ApplicationVerdict
    <3>3. r.intact
      BY <3>1, <3>2 DEF ApplicationVerdict, Corrupted
    <3>4. r.ids[1] = ids.sent[1]
      BY <3>1, <3>2, <3>3 DEF ApplicationVerdict
    <3> QED
      BY <3>2, <3>4
  <2>3. r.ids[1] = r.of - 3 /\ ids.sent[1] = step - 3
    BY <1>1, <1>2, <1>7, <2>2 DEF Told, MessageInv, CounterInv
  <2>4. ASSUME NEW a \in Nat, NEW b \in Nat, a - 3 = b - 3 PROVE a = b
    BY <2>4
  <2>5. r.of - 3 = step - 3
    BY <2>2, <2>3, Zenon
  <2>6. r.of \in Nat /\ step \in Nat
    BY <1>1
  <2> QED
    BY <2>4, <2>5, <2>6, Zenon
<1> QED
  BY <1>1, <1>4, <1>5, <1>6, <1>7

\* A step that says nothing new.
LEMMA AirKept ==
  ASSUME IInv, MessageInv,
         Elems(up') \subseteq Elems(up), Increasing(up'),
         Elems(down') \cup Elems(responses') \subseteq Answered,
         shade' = shade, chosen' = chosen \/ step = 1,
         \A i \in Nat : Past(i) => Past(i)',
         step' > 2 => step > 2 \/ \A q \in Elems(up) : q.of # 2
  PROVE  UpInv' /\ DownInv'
<1>1. ASSUME NEW q \in Elems(up)
      PROVE  Asked(q)' /\ Past(q.of)' /\ (step' > 2 => q.of # 2)
  <2>1. Asked(q) /\ Past(q.of) /\ q.of \in 1..Len(Script) /\ (step > 2 => q.of # 2)
    BY DEF MessageInv, UpInv, Asked
  <2>2. q.of = 2 => chosen' = chosen
    BY <2>1 DEF Past
  <2>3. q.of \in Nat
    BY <2>1
  <2> QED
    BY <2>1, <2>2, <2>3 DEF Asked
<1>2. ASSUME NEW f \in Answered PROVE Told(f)' /\ Past(f.of)'
  <2>1. Told(f) /\ Past(f.of) /\ f.of \in 1..Len(Script)
    BY DEF MessageInv, DownInv, Told
  <2>2. f.of = 2 => chosen' = chosen
    BY <2>1 DEF Past
  <2>3. f.of \in Nat
    BY <2>1
  <2> QED
    BY <2>1, <2>2, <2>3 DEF Told
<1>3. UpInv'
  BY <1>1 DEF UpInv
<1>4. DownInv'
  <2>1. Answered' \subseteq Answered
    BY DEF Answered
  <2> QED
    BY <1>2, <2>1 DEF MessageInv, DownInv
<1> QED
  BY <1>3, <1>4

LEMMA SendMessage == ASSUME IInv, MessageInv, Send PROVE MessageInv'
<1>0. /\ phase = "ready" /\ phase' = "await" /\ up' = Append(up, Request)
      /\ UNCHANGED <<step, outcome, chosen, responses, taken, shade, down>>
      /\ IF Handshaking THEN UNCHANGED ids ELSE TakeIds
  BY DEF Send
<1>1. step \in 1..Len(Script) /\ IsSeq(up)
  BY <1>0, ScriptFacts DEF IInv, TypeOK, KeyInv
<1>2. Asked(Request) /\ Request.of = step
  <2>1. CASE Handshaking
    <3>1. /\ Request.of = step /\ Request.command = Script[step] /\ Request.layer = "crypto"
          /\ Request.value = chosen
      BY <2>1 DEF Request, Crypto
    <3> HIDE DEF Request
    <3> QED
      BY <1>1, <2>1, <3>1 DEF Asked, Handshaking
  <2>2. CASE ~Handshaking
    <3>1. /\ Request.of = step /\ Request.command = Script[step]
          /\ Request.layer = "application" /\ Request.ids = <<ids.counter, ids.id>>
      BY <2>2 DEF Request, Application
    <3>2. step > 3
      BY <1>1, <2>2 DEF Handshaking
    <3>3. Request.ids[1] = step - 3
      <4>1. ids.counter = step - 3
        BY <1>0, <3>2 DEF MessageInv, CounterInv
      <4>2. <<ids.counter, ids.id>>[1] = ids.counter
        OBVIOUS
      <4> QED
        BY <3>1, <4>1, <4>2
    <3> HIDE DEF Request
    <3> QED
      BY <1>1, <3>1, <3>2, <3>3 DEF Asked
  <2> QED
    BY <2>1, <2>2
<1> HIDE DEF Request
<1>3. Elems(up') \subseteq Elems(up) \cup {Request}
  BY <1>0, <1>1, AppendSeq
<1>4. (\A q : Asked(q) => Asked(q)') /\ (\A f : Told(f) => Told(f)') /\ \A i : Past(i) => Past(i)'
  BY <1>0 DEF Asked, Told, Past
<1>5. /\ \A q \in Elems(up) : q.of < step
      /\ \A f \in Answered : f.of < step
  BY <1>0 DEF MessageInv, UpInv, DownInv, Past
<1>6. UpInv'
  <2>1. Increasing(up')
    BY <1>0, <1>1, <1>2, <1>5, AppendIncreasing DEF MessageInv, UpInv
  <2>3. \A q \in Elems(up) : Asked(q)' /\ Past(q.of)' /\ (step' > 2 => q.of # 2)
    BY <1>0, <1>4 DEF MessageInv, UpInv
  <2>4. ASSUME NEW q, q = Request PROVE Asked(q)' /\ Past(q.of)' /\ (step' > 2 => q.of # 2)
    <3>1. Asked(q) /\ q.of = step
      BY <1>2, <2>4
    <3>2. Past(q.of)'
      BY <1>0, <1>1, <3>1 DEF Past
    <3> QED
      BY <1>0, <1>1, <1>4, <3>1, <3>2
  <2> QED
    BY <1>3, <2>1, <2>3, <2>4 DEF UpInv
<1>7. DownInv'
  <2>1. Answered' = Answered
    BY <1>0 DEF Answered
  <2> QED
    BY <1>2, <1>3, <1>4, <1>5, <2>1 DEF MessageInv, DownInv
<1>8. CounterInv'
  <2>1. CASE Handshaking
    BY <1>0, <1>1, <2>1 DEF MessageInv, CounterInv, Handshaking
  <2>2. CASE ~Handshaking
    <3>1. step > 3 /\ ids.counter = step - 3
      BY <1>0, <1>1, <2>2 DEF Handshaking, MessageInv, CounterInv
    <3>2. /\ ids'.counter = IF ids.counter = LastCounter THEN 1 ELSE ids.counter + 1
          /\ ids'.sent = <<ids.counter, ids.id>>
      BY <1>0, <2>2 DEF TakeIds
    <3>3. ids'.sent[1] = step - 3
      BY <3>1, <3>2
    <3>4. step < Len(Script) => ids'.counter = step - 2
      BY <1>1, <3>1, <3>2, ScriptFacts, LengthAssumption, WidthAssumption
    <3> QED
      BY <1>0, <1>1, <3>1, <3>3, <3>4 DEF CounterInv
  <2> QED
    BY <2>1, <2>2
<1>9. VersionInv' /\ TakenInv'
  BY <1>0 DEF MessageInv, VersionInv, TakenInv, OwnAnswer
<1> QED
  BY <1>6, <1>7, <1>8, <1>9 DEF MessageInv


\* How far a request put is past.
LEMMA PastKept ==
  ASSUME IInv, NEW i \in Nat, Past(i),
         (step' = step /\ phase' \in {phase, "ended"}) \/ step' = step + 1
  PROVE  Past(i)'
<1>1. step \in Nat
  BY DEF IInv, TypeOK
<1> QED
  BY <1>1 DEF Past

LEMMA AnswersAreOld ==
  ASSUME IInv, MessageInv, NEW r \in Elems(responses), r.of = step
  PROVE  \A q \in Elems(up) : q.of # step
<1> SUFFICES ASSUME NEW q \in Elems(up), q.of = step PROVE FALSE
  OBVIOUS
<1>1. r.of < q.of /\ step \in Nat
  BY DEF MessageInv, DownInv, Answered, IInv, TypeOK
<1> QED
  BY <1>1

\* The next request begins: what the counters and the answers taken are then.
LEMMA AdvanceFacts ==
  ASSUME IInv, MessageInv, phase = "await", Advance, ids' = ids, taken' = Append(taken, step)
  PROVE  CounterInv' /\ TakenInv'
<1>1. /\ step \in 1..Len(Script) /\ step' = step + 1 /\ phase' \in {"ready", "ended"}
      /\ phase' = "ready" => step < Len(Script)
  <2>1. step \in 1..Len(Script)
    BY ScriptFacts DEF IInv, TypeOK, KeyInv
  <2> QED
    BY <2>1, ScriptFacts DEF Advance
<1>2. CounterInv'
  BY <1>1, ScriptFacts DEF MessageInv, CounterInv
<1>3. TakenInv'
  <2>1. taken \in Seq(Nat) /\ Len(taken) = step - 1 /\ \A i \in 1..Len(taken) : taken[i] = i
    BY DEF MessageInv, TakenInv, OwnAnswer
  <2>2. /\ taken' \in Seq(Nat) /\ Len(taken') = step
        /\ \A i \in 1..step : taken'[i] = IF i <= step - 1 THEN taken[i] ELSE step
    BY <1>1, <2>1
  <2>3. \A i \in 1..step : taken'[i] = i
    BY <1>1, <2>1, <2>2
  <2>4. step' - 1 = step
    BY <1>1
  <2> QED
    BY <2>2, <2>3, <2>4 DEF TakenInv, OwnAnswer
<1> QED
  BY <1>2, <1>3

LEMMA EndFacts ==
  ASSUME IInv, MessageInv, NEW result, End(result), ids' = ids,
         UNCHANGED <<taken, chosen, shade>>
  PROVE  CounterInv' /\ TakenInv' /\ VersionInv'
  BY DEF MessageInv, End, CounterInv, TakenInv, OwnAnswer, VersionInv

LEMMA ReceiveMessage == ASSUME IInv, MessageInv, Receive PROVE MessageInv'
<1> DEFINE r == Head(responses)
<1>1. /\ phase = "await" /\ responses # <<>> /\ responses' = Tail(responses)
      /\ UNCHANGED <<ids, shade, up, down, doubles>>
  BY DEF Receive
<1>2. PICK verdict \in Verdicts(r) :
          IF verdict = "ok"
          THEN /\ Advance
               /\ taken' = Append(taken, r.of)
               /\ chosen' = IF step = 1 THEN Best(Common(r)) ELSE chosen
          ELSE End(verdict) /\ UNCHANGED <<taken, chosen>>
  BY DEF Receive
<1>3. r \in Elems(responses) /\ Elems(responses') \subseteq Elems(responses)
  BY <1>1, TailSeq DEF IInv, KeyInv
<1> HIDE DEF r
<1>4. /\ Elems(up') \subseteq Elems(up) /\ Increasing(up')
      /\ Elems(down') \cup Elems(responses') \subseteq Answered
  BY <1>1, <1>3 DEF Answered, MessageInv, UpInv
<1>5. CASE verdict = "ok"
  <2>1. /\ Advance /\ taken' = Append(taken, r.of) /\ "ok" \in Verdicts(r)
        /\ chosen' = IF step = 1 THEN Best(Common(r)) ELSE chosen
    BY <1>2, <1>5
  <2>2. r.of = step
    BY <1>1, <1>3, <2>1, AcceptedIsOwn
  <2>3. step' = step + 1 /\ step \in Nat
    BY <2>1 DEF Advance, IInv, TypeOK
  <2>4. \A q \in Elems(up) : q.of # step
    BY <1>3, <2>2, AnswersAreOld
  <2>5. \A i \in Nat : Past(i) => Past(i)'
    BY <2>3, PastKept
  <2>6. step' > 2 => step > 2 \/ \A q \in Elems(up) : q.of # 2
    BY <2>3, <2>4
  <2>7. UpInv' /\ DownInv'
    BY <1>1, <1>4, <2>1, <2>5, <2>6, AirKept
  <2>8. CounterInv' /\ TakenInv'
    BY <1>1, <2>1, <2>2, AdvanceFacts
  <2>9. Told(r)
    BY <1>3 DEF MessageInv, DownInv, Answered
  <2>10. VersionInv'
    <3>1. CASE step = 1
      <4>1. r.command = "versions"
        BY <2>1, <3>1, ScriptFacts DEF Verdicts, VersionsVerdict, CryptoVerdict, Corrupted
      <4>2. r.value = shade.offer
        BY <2>2, <2>9, <3>1, <4>1 DEF Told
      <4>3. chosen' = Best(shade.offer \cap Supported)
        BY <2>1, <3>1, <4>2 DEF Common
      <4> QED
        BY <1>1, <2>3, <3>1, <4>3 DEF MessageInv, VersionInv
    <3>2. CASE step = 2
      <4>1. \/ r.command = "select" /\ r.value = chosen
            \/ r.command = "ack" /\ r.value = "select"
        BY <2>1, <3>2, ScriptFacts DEF Verdicts, SelectionVerdict, CryptoVerdict, Corrupted
      <4>2. chosen = shade.version
        BY <2>2, <2>9, <3>2, <4>1, ScriptFacts DEF Told
      <4> QED
        BY <1>1, <2>1, <2>3, <3>2, <4>2 DEF MessageInv, VersionInv
    <3>3. CASE step > 2
      BY <1>1, <2>1, <2>3, <3>3 DEF MessageInv, VersionInv
    <3>4. step = 1 \/ step = 2 \/ step > 2
      BY DEF IInv, TypeOK
    <3> QED
      BY <3>1, <3>2, <3>3, <3>4
  <2> QED
    BY <2>7, <2>8, <2>10 DEF MessageInv
<1>6. CASE verdict # "ok"
  <2>1. End(verdict) /\ UNCHANGED <<taken, chosen>>
    BY <1>2, <1>6
  <2>2. CounterInv' /\ TakenInv' /\ VersionInv'
    BY <1>1, <2>1, EndFacts
  <2>3. \A i \in Nat : Past(i) => Past(i)'
    BY <2>1, PastKept DEF End
  <2>4. UpInv' /\ DownInv'
    BY <1>1, <1>4, <2>1, <2>3, AirKept DEF End
  <2> QED
    BY <2>2, <2>4 DEF MessageInv
<1> QED
  BY <1>5, <1>6

LEMMA TimeOutMessage == ASSUME IInv, MessageInv, TimeOut PROVE MessageInv'
<1>1. phase = "await" /\ UNCHANGED <<ids, chosen, responses, shade, up, down>>
  BY DEF TimeOut
<1>2. /\ Elems(up') \subseteq Elems(up) /\ Increasing(up')
      /\ Elems(down') \cup Elems(responses') \subseteq Answered
  BY <1>1 DEF Answered, MessageInv, UpInv
<1>3. CASE Script[step] = "write"
  <2>1. Advance /\ taken' = Append(taken, step) /\ step' = step + 1
    BY <1>3 DEF TimeOut, Advance
  <2>2. step \in Nat /\ step > 2
    <3>1. step \in Nat \ {0} /\ step # 1 /\ step # 2
      BY <1>3, ScriptFacts DEF IInv, TypeOK
    <3> QED
      BY <3>1
  <2>3. CounterInv' /\ TakenInv'
    BY <1>1, <2>1, AdvanceFacts
  <2>4. \A i \in Nat : Past(i) => Past(i)'
    BY <2>1, PastKept
  <2>5. UpInv' /\ DownInv'
    BY <1>1, <1>2, <2>2, <2>4, AirKept
  <2>6. VersionInv'
    BY <1>1, <2>1, <2>2 DEF MessageInv, VersionInv
  <2> QED
    BY <2>3, <2>5, <2>6 DEF MessageInv
<1>4. CASE Script[step] # "write"
  <2>1. End("timeout") /\ taken' = taken
    BY <1>4 DEF TimeOut
  <2>2. CounterInv' /\ TakenInv' /\ VersionInv'
    BY <1>1, <2>1, EndFacts
  <2>3. \A i \in Nat : Past(i) => Past(i)'
    BY <2>1, PastKept DEF End
  <2>4. UpInv' /\ DownInv'
    BY <1>1, <1>2, <2>1, <2>3, AirKept DEF End
  <2> QED
    BY <2>2, <2>4 DEF MessageInv
<1> QED
  BY <1>3, <1>4


\* What the shade says in answer to a request, and the version it has settled on then.
LEMMA AnswerFacts ==
  ASSUME NEW q, Asked(q), NEW a \in Answers(q)
  PROVE  /\ {"layer", "command", "value", "intact", "of"} \subseteq DOMAIN a
         /\ a.of = q.of
         /\ q.of <= 3 =>
               /\ a.layer = "crypto"
               /\ \/ a.command = Script[q.of] /\ (q.of = 1 => a.value = shade.offer)
                  \/ a.command = "ack" /\ a.value = Script[q.of]
         /\ q.of > 3 => a.layer = "application" /\ "ids" \in DOMAIN a /\ a.ids[1] = q.of - 3
         /\ q.of # 2 => Settled(q, a) = shade.version
         /\ q.of = 2 => Settled(q, a) = IF a.command = "select" THEN a.value ELSE chosen
<1>1. q.of \in 1..Len(Script) /\ q.command = Script[q.of] /\ (q.of <= 3 <=> q.layer = "crypto")
  BY DEF Asked
<1>2. q.of <= 3 \/ q.of > 3
  BY <1>1
<1>3. /\ q.of # 2 => Settled(q, a) = shade.version
      /\ q.of = 2 => Settled(q, a) = IF a.command = "select" THEN a.value ELSE chosen
  BY <1>1, ScriptFacts, ScriptKinds DEF Settled, Asked
<1>4. CASE q.of <= 3
  <2>1. CASE a = Crypto(q.of, "ack", q.command)
    BY <1>1, <1>3, <1>4, <2>1 DEF Crypto
  <2>2. ASSUME NEW v \in Values(q.command), a = Crypto(q.of, q.command, v)
        PROVE  /\ {"layer", "command", "value", "intact", "of"} \subseteq DOMAIN a
               /\ a.of = q.of /\ a.layer = "crypto" /\ a.command = Script[q.of]
               /\ q.of = 1 => a.value = shade.offer
    <3>1. q.of = 1 => v = shade.offer
      BY <1>1, <2>2, ScriptFacts DEF Values
    <3> QED
      BY <1>1, <2>2, <3>1 DEF Crypto
  <2>3. a = Crypto(q.of, "ack", q.command) \/ \E v \in Values(q.command) : a = Crypto(q.of, q.command, v)
    BY <1>1, <1>4 DEF Answers
  <2>4. ~(q.of > 3)
    BY <1>1, <1>4
  <2> QED
    BY <1>3, <2>1, <2>2, <2>3, <2>4
<1>5. CASE q.of > 3
  <2>1. ~(q.of <= 3)
    BY <1>1, <1>5
  <2>2. \/ a = Application(q.of, q.command, 0, q.key, q.ids)
        \/ a = Application(q.of, "ack", q.command, q.key, q.ids)
    BY <1>1, <2>1 DEF Answers
  <2>3. /\ {"layer", "command", "value", "intact", "of", "ids"} \subseteq DOMAIN a
        /\ a.of = q.of /\ a.layer = "application" /\ a.ids = q.ids
    BY <2>2 DEF Application
  <2>4. q.ids[1] = q.of - 3
    BY <1>5 DEF Asked
  <2> QED
    BY <1>3, <1>5, <2>1, <2>3, <2>4
<1> QED
  BY <1>2, <1>4, <1>5

LEMMA AnswerMessage == ASSUME IInv, MessageInv, Answer PROVE MessageInv'
<1> DEFINE q == Head(up)
<1>1. /\ up # <<>> /\ up' = Tail(up)
      /\ UNCHANGED <<step, phase, outcome, ids, chosen, responses, taken>>
  BY DEF Answer, clientVars
<1>2. PICK a \in Answers(q), twice \in BOOLEAN :
          /\ down' = IF twice THEN down \o <<a, a>> ELSE Append(down, a)
          /\ shade' = [shade EXCEPT !.version = Settled(q, a)]
  BY DEF Answer
<1>3. IsSeq(up) /\ IsSeq(down) /\ Increasing(up)
  BY DEF IInv, KeyInv, MessageInv, UpInv
<1>4. /\ q \in Elems(up) /\ Elems(up') \subseteq Elems(up) /\ Increasing(up')
      /\ \A x \in Elems(up') : q.of < x.of
  BY <1>1, <1>3, TailSeq, TailIncreasing
<1>5. Elems(down') \subseteq Elems(down) \cup {a}
  BY <1>2, <1>3, AppendSeq, TwiceSeq
<1> HIDE DEF q
<1>6. Asked(q) /\ Past(q.of) /\ (step > 2 => q.of # 2) /\ q.of \in 1..Len(Script)
  BY <1>4 DEF MessageInv, UpInv, Asked
<1>7. /\ DOMAIN shade' = DOMAIN shade /\ shade'.offer = shade.offer
      /\ shade'.version = Settled(q, a)
  BY <1>2 DEF MessageInv, VersionInv
<1>8. Told(a)' /\ a.of = q.of
  BY <1>1, <1>6, <1>7, AnswerFacts, ScriptFacts DEF Told
<1>9. ASSUME NEW f \in Answered PROVE Told(f)'
  <2>1. Told(f) /\ f.of < q.of /\ f.of \in 1..Len(Script)
    BY <1>4 DEF MessageInv, DownInv, Told
  <2>2. f.of = 2 => q.of # 2
    BY <1>6, <2>1
  <2>3. f.of = 2 => shade'.version = shade.version
    BY <1>2, <1>6, <1>7, <2>2, AnswerFacts
  <2> QED
    BY <1>1, <1>7, <2>1, <2>3 DEF Told
<1>10. \A x : (Asked(x) => Asked(x)') /\ (Past(x) => Past(x)')
  BY <1>1 DEF Asked, Past
<1>11. UpInv'
  BY <1>1, <1>4, <1>10 DEF MessageInv, UpInv
<1>12. DownInv'
  <2>1. Answered' \subseteq Answered \cup {a}
    BY <1>1, <1>5 DEF Answered
  <2>2. \A f \in Answered : Past(f.of)' /\ \A x \in Elems(up') : f.of < x.of
    BY <1>4, <1>10 DEF MessageInv, DownInv
  <2>3. Past(a.of)' /\ \A x \in Elems(up') : a.of < x.of
    BY <1>4, <1>6, <1>8, <1>10
  <2> QED
    BY <1>8, <1>9, <2>1, <2>2, <2>3 DEF DownInv
<1>13. VersionInv'
  <2>1. step > 2 => shade'.version = shade.version
    BY <1>2, <1>6, <1>7, AnswerFacts
  <2> QED
    BY <1>1, <1>7, <2>1 DEF MessageInv, VersionInv
<1>14. CounterInv' /\ TakenInv'
  BY <1>1 DEF MessageInv, CounterInv, TakenInv, OwnAnswer
<1> QED
  BY <1>11, <1>12, <1>13, <1>14 DEF MessageInv

LEMMA DeliverMessage == ASSUME IInv, MessageInv, Deliver PROVE MessageInv'
<1> DEFINE h == Head(down)
<1>1. /\ down # <<>> /\ down' = Tail(down)
      /\ UNCHANGED <<step, phase, outcome, ids, chosen, taken, shade, up>>
  BY DEF Deliver
<1>2. PICK intact \in BOOLEAN : responses' = Append(responses, [h EXCEPT !.intact = intact])
  BY DEF Deliver
<1>3. h \in Elems(down) /\ Elems(down') \subseteq Elems(down)
  BY <1>1, TailSeq DEF IInv, KeyInv
<1> HIDE DEF h
<1> DEFINE r == [h EXCEPT !.intact = intact]
<1>4. Told(h) /\ Past(h.of) /\ \A q \in Elems(up) : h.of < q.of
  BY <1>3 DEF MessageInv, DownInv, Answered
<1>5. /\ DOMAIN r = DOMAIN h /\ r.layer = h.layer /\ r.command = h.command
      /\ r.value = h.value /\ r.of = h.of
      /\ "ids" \in DOMAIN h => r.ids = h.ids
  BY <1>4 DEF Told
<1> HIDE DEF r
<1>6. Told(r)
  BY <1>4, <1>5 DEF Told
<1>7. Elems(responses') \subseteq Elems(responses) \cup {r}
  BY <1>2, AppendSeq DEF IInv, KeyInv, r
<1>8. (\A q : Asked(q) => Asked(q)') /\ (\A f : Told(f) => Told(f)') /\ \A i : Past(i) => Past(i)'
  BY <1>1 DEF Asked, Told, Past
<1>9. UpInv'
  BY <1>1, <1>8 DEF MessageInv, UpInv
<1>10. DownInv'
  <2>1. Answered' \subseteq Answered \cup {r}
    BY <1>3, <1>7 DEF Answered
  <2>2. ASSUME NEW f \in Answered \cup {r}
        PROVE  Told(f) /\ Past(f.of) /\ \A q \in Elems(up) : f.of < q.of
    BY <1>4, <1>5, <1>6 DEF MessageInv, DownInv
  <2> QED
    BY <1>1, <1>8, <2>1, <2>2 DEF DownInv
<1>11. CounterInv' /\ TakenInv' /\ VersionInv'
  BY <1>1 DEF MessageInv, CounterInv, TakenInv, OwnAnswer, VersionInv
<1> QED
  BY <1>9, <1>10, <1>11 DEF MessageInv

\* The steps that only drop something, or nothing.
LEMMA DropMessage ==
  ASSUME IInv, MessageInv, RefuseStale \/ Ignore \/ Lose \/ UNCHANGED vars PROVE MessageInv'
<1>1. /\ UNCHANGED <<step, ids, chosen, responses, taken, shade>>
      /\ phase' \in {phase, "ended"}
      /\ up' = up \/ (up # <<>> /\ up' = Tail(up))
      /\ down' = down \/ (down # <<>> /\ down' = Tail(down))
  BY DEF RefuseStale, End, Ignore, Lose, vars, clientVars
<1>2. IsSeq(up) /\ IsSeq(down) /\ Increasing(up)
  BY DEF IInv, KeyInv, MessageInv, UpInv
<1>3. Elems(up') \subseteq Elems(up) /\ Increasing(up') /\ Elems(down') \subseteq Elems(down)
  BY <1>1, <1>2, TailSeq, TailIncreasing
<1>4. \A i \in Nat : Past(i) => Past(i)'
  BY <1>1, PastKept
<1>5. UpInv' /\ DownInv'
  BY <1>1, <1>3, <1>4, AirKept DEF Answered
<1>6. CounterInv' /\ TakenInv' /\ VersionInv'
  BY <1>1 DEF MessageInv, CounterInv, TakenInv, OwnAnswer, VersionInv
<1> QED
  BY <1>5, <1>6 DEF MessageInv

LEMMA NextMessage == IInv /\ MessageInv /\ [Next]_vars => MessageInv'
  BY SendMessage, ReceiveMessage, TimeOutMessage, AnswerMessage, DeliverMessage, DropMessage
     DEF Next

LEMMA MessageInvariant == Spec => [](IInv /\ MessageInv)
  BY InitInv, NextInv, InitMessage, NextMessage, PTL DEF Spec

\* A response is taken for the request it answers, however late or often it comes
\* (decode_application_response and the checks of authenticate).
THEOREM OwnAnswerTheorem == Spec => []OwnAnswer
<1>1. MessageInv => OwnAnswer
  BY DEF MessageInv, TakenInv
<1> QED
  BY MessageInvariant, <1>1, PTL

\* Past the selection, client and shade use the same version, the best that both know
\* (authenticate).
THEOREM VersionTheorem == Spec => []VersionAgreed
<1>1. IInv /\ MessageInv => VersionAgreed
  <2>1. IInv /\ step > 2 => step > 1
    BY DEF IInv, TypeOK
  <2> QED
    BY <2>1 DEF MessageInv, VersionInv, VersionAgreed
<1> QED
  BY MessageInvariant, <1>1, PTL
=============================================================================
