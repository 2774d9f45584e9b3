------------------------------ MODULE KeyForms ------------------------------
(***************************************************************************)
(* The ways of THEFEED_MASTER_KEY.  thefeed derives the key of the feed    *)
(* from it (ParseKey32, server/internal/crypto/keys.go); authd seals the   *)
(* text itself in the session envelope (issueSessionEnvelope), and the     *)
(* page takes it out (web/lib/session-envelope.ts) and derives the key in  *)
(* a way of its own (web/src/lib/feed-crypto.ts).                          *)
(*                                                                         *)
(* Different texts have different hashes, and none that is anyone's bytes. *)
(***************************************************************************)

CONSTANT Words  \* the secrets, apart from how they are written

(* A text: 32 bytes in one of the codes, or a phrase, which is anything    *)
(* else.  margin: white space around it; bar: a "|" in it, which no code   *)
(* has; cut: only what is before the bar.                                  *)
Coded == {"base64", "rawbase64", "hex"}

Text == {t \in [word : Words, form : Coded \cup {"phrase"},
                margin : BOOLEAN, bar : BOOLEAN, cut : BOOLEAN] :
            /\ t.bar => t.form = "phrase"
            /\ t.cut => t.bar}

(* What the variable is set to.                                            *)
MasterKey == {t \in Text : ~t.cut}

TrimSpace(t) == [t EXCEPT !.margin = FALSE]

ParseKey32(t) ==
    IF t.form \in Coded THEN [hashed |-> FALSE, of |-> t.word]
                        ELSE [hashed |-> TRUE, of |-> TrimSpace(t)]

(* The payload of the envelope is the text, a bar and a date; the page     *)
(* takes what is before the first bar.                                     *)
SessionKey(t) == [t EXCEPT !.cut = t.bar]

(* normalizedKey of decryptFeedCiphertext.                                 *)
NormalizedKey(k) == [hashed |-> TRUE, of |-> k]

(* Whether a page that authd gave the text t can read what thefeed seals,  *)
(* started with the text s.                                                *)
Opens(t, s) == NormalizedKey(SessionKey(t)) = ParseKey32(s)
=============================================================================
