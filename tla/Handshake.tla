----------------------------- MODULE Handshake ------------------------------
(***************************************************************************)
(* VerifyHandshakeMessage of src/pkg/p2p/crypto/handshake.go (lines      *)
(* 72-109) and the timestamp CreateHandshakeMessage puts in a message    *)
(* (lines 37-69).  The public key and the signature are abstracted to    *)
(* whether they parse and verify; the timestamp is an int64, and the     *)
(* freshness check computes its two differences in int64 arithmetic,    *)
(* which wraps modulo 2^64.  The wrap is stated for a two's-complement   *)
(* word of any width, of half-range H (H = 2^63 for int64), so that the  *)
(* proofs need no arithmetic on 2^63 itself.                              *)
(***************************************************************************)
EXTENDS Integers, TLAPS

\* The values of a word of half-range H, and Go's subtraction on them: the
\* exact difference reduced into the word, modulo 2H.
Word(H) == -H .. H - 1
Wrap(x, H) == ((x + H) % (2 * H)) - H

\* int64: H = 2^63.
Half == 2^63
Int64 == Word(Half)

\* The window of the timestamp check, in seconds.
Window == 300

\* currentTime-msg.Timestamp > 300 || msg.Timestamp-currentTime > 300,
\* on words of half-range H.
TooFar(now, ts, H) == Wrap(now - ts, H) > Window \/ Wrap(ts - now, H) > Window

\* A received message: nil or not, whether msg.PublicKey unmarshals, whether
\* the signature over the copy without it verifies, and its Timestamp.
Messages(H) == [present : BOOLEAN, keyOk : BOOLEAN, sigOk : BOOLEAN, ts : Word(H)]

\* The error VerifyHandshakeMessage returns, in the order it checks, or
\* "ok" for nil, when time.Now().Unix() returns now.
VerifyHandshakeMessage(msg, now, H) ==
    IF ~msg.present THEN "nil"
    ELSE IF ~msg.keyOk THEN "badKey"
    ELSE IF ~msg.sigOk THEN "badSignature"
    ELSE IF TooFar(now, msg.ts, H) THEN "badTimestamp"
    ELSE "ok"

\* CreateHandshakeMessage: time.Now().Unix() at the sender, signed.
CreateHandshakeMessage(now) ==
    [present |-> TRUE, keyOk |-> TRUE, sigOk |-> TRUE, ts |-> now]

-----------------------------------------------------------------------------
\* Clocks time.Now().Unix() can return on a host set after 1970: up to
\* 300 seconds before the last second of the word.
Clocks(H) == 0 .. H - Window - 1

\* Go's subtraction of two words: exact inside the word, and off by one
\* modulus above or below it.
LEMMA WrapDiff ==
    ASSUME NEW H \in Nat \ {0}, NEW d \in -(2 * H) + 1 .. 2 * H - 1
    PROVE  /\ d \in Word(H) => Wrap(d, H) = d
           /\ d >= H => Wrap(d, H) = d - 2 * H
           /\ d < -H => Wrap(d, H) = d + 2 * H
BY SMT DEF Word, Wrap

\* The freshness check of VerifyHandshakeMessage, with a clock at or after
\* 1970, lets through exactly the timestamps within 300 seconds of the
\* receiver's clock, and one more: the timestamp H seconds (2^63 for
\* int64) before it, for which both differences wrap to -H.
THEOREM FreshnessWindow ==
    ASSUME NEW H \in Nat, H > Window, NEW now \in Clocks(H), NEW ts \in Word(H)
    PROVE  ~TooFar(now, ts, H) <=> (now - ts \in -Window .. Window \/ now - ts = H)
<1> DEFINE d == now - ts
<1>1. /\ H \in Nat \ {0}
      /\ d \in -(2 * H) + 1 .. 2 * H - 1
      /\ -d \in -(2 * H) + 1 .. 2 * H - 1
      /\ ts - now = -d
      /\ d \in -(H - 1) .. 2 * H - Window - 1
  BY SMT DEF Clocks, Word, Window
<1>2. CASE d \in Word(H)
  <2>1. -d \in Word(H)
    BY <1>1, <1>2, SMT DEF Word
  <2>2. Wrap(d, H) = d
    BY <1>1, <1>2, WrapDiff
  <2>3. Wrap(ts - now, H) = -d
    <3>1. Wrap(-d, H) = -d
      BY <1>1, <2>1, WrapDiff
    <3>2. QED
      BY <1>1, <3>1
  <2>4. d # H
    BY <1>2, SMT DEF Word
  <2>5. QED
    BY <2>2, <2>3, <2>4, SMT DEF TooFar, Window, Clocks, Word
<1>3. CASE d = H
  <2>1. Wrap(d, H) = d - 2 * H
    BY <1>1, <1>3, WrapDiff, SMT
  <2>2. -d \in Word(H)
    BY <1>1, <1>3, SMT DEF Word
  <2>3. Wrap(ts - now, H) = -d
    <3>1. Wrap(-d, H) = -d
      BY <1>1, <2>2, WrapDiff
    <3>2. QED
      BY <1>1, <3>1
  <2>4. QED
    BY <1>1, <1>3, <2>1, <2>3, SMT DEF TooFar, Window
<1>4. CASE d > H
  <2>1. -d < -H
    BY <1>1, <1>4, SMT
  <2>2. Wrap(-d, H) = -d + 2 * H
    BY <1>1, <2>1, WrapDiff
  <2>3. Wrap(ts - now, H) > Window /\ d \notin -Window .. Window
    <3>1. Wrap(ts - now, H) = -d + 2 * H
      BY <1>1, <2>2
    <3>2. QED
      BY <1>1, <1>4, <3>1, SMT DEF Clocks, Word, Window
  <2>4. QED
    BY <1>4, <2>3, SMT DEF TooFar
<1>5. QED
  BY <1>1, <1>2, <1>3, <1>4, SMT DEF Word

\* A signed message whose timestamp is H seconds before the receiver's
\* clock (2^63 seconds, about 292 billion years, for int64) passes
\* VerifyHandshakeMessage.
THEOREM AncientAccepted ==
    ASSUME NEW H \in Nat, H > Window, NEW now \in Clocks(H)
    PROVE  LET msg == [present |-> TRUE, keyOk |-> TRUE, sigOk |-> TRUE,
                       ts |-> now - H]
           IN  /\ msg \in Messages(H)
               /\ VerifyHandshakeMessage(msg, now, H) = "ok"
<1>1. now - H \in Word(H) /\ now - (now - H) = H
  BY SMT DEF Clocks, Word, Window
<1>2. ~TooFar(now, now - H, H)
  BY <1>1, FreshnessWindow
<1>3. QED
  BY <1>1, <1>2 DEF Messages, VerifyHandshakeMessage

\* A message made by CreateHandshakeMessage passes VerifyHandshakeMessage
\* at any receiver clock within 300 seconds of the sender's, before or
\* after it.
THEOREM CreatedAccepted ==
    ASSUME NEW H \in Nat, H > Window, NEW sent \in Clocks(H), NEW now \in Clocks(H),
           now - sent \in -Window .. Window
    PROVE  VerifyHandshakeMessage(CreateHandshakeMessage(sent), now, H) = "ok"
<1>1. sent \in Word(H)
  BY SMT DEF Clocks, Word, Window
<1>2. ~TooFar(now, sent, H)
  BY <1>1, FreshnessWindow
<1>3. QED
  BY <1>2 DEF CreateHandshakeMessage, VerifyHandshakeMessage
=============================================================================
