----------------------------- MODULE TxtRecord ------------------------------
(***************************************************************************)
(* One TXT record: how thefeed answers a query with a chunk                *)
(* (buildTXTResponse, buildTXTWithinCap) and what the page makes of it     *)
(* (parseChunkHeader).  Texts are their lengths: what matters is whether   *)
(* the chunk arrives whole and the response keeps to its budget.           *)
(***************************************************************************)
EXTENDS Integers, Sequences, FiniteSets

CONSTANTS Chunks,         \* the cache: the lengths of the chunks of each batch
          PadMin, PadMax, \* --padding-min, --padding-max
          MaxBytes        \* --max-dns-response-bytes

(* A query: the numbers in the labels b<n> and p<n> of its name (0 if      *)
(* there is none), the bytes of its packet, and whether the name ends in   *)
(* the domain.                                                             *)
Query == [batch : Nat, part : Nat, len : Nat, zone : BOOLEAN]

ASSUME RecordAssumption ==
    /\ DOMAIN Chunks \subseteq Nat
    /\ \A b \in DOMAIN Chunks : Chunks[b] \in Seq(Nat)
    /\ PadMin \in Nat /\ PadMax \in Nat /\ MaxBytes \in Nat

(* parsePartIndex: no part, or p0, is the first.                           *)
Part(q) == IF q.part >= 1 THEN q.part ELSE 1

Exists(q) ==
    /\ q.zone
    /\ q.batch \in DOMAIN Chunks
    /\ Part(q) \in 1..Len(Chunks[q.batch])

(* The digits intToString writes, of numbers below 10^10.                  *)
Digits(n) == 1 + Cardinality({k \in 1..9 : 10^k <= n})

(* b:<batch>:c:<part>/<total>:                                             *)
HeaderLen(q) == 7 + Digits(q.batch) + Digits(Part(q)) + Digits(Len(Chunks[q.batch]))

(* The text up to the dot behind the chunk, which the page looks for.      *)
BodyLen(q) == HeaderLen(q) + Chunks[q.batch][Part(q)] + 1

(* A character-string of a TXT record holds 255 bytes.                     *)
TxtLen(q, pad) == IF BodyLen(q) + pad > 255 THEN 255 ELSE BodyLen(q) + pad

(* The header and question of the query are repeated; 12 bytes of the      *)
(* answer and a length byte precede the text.                              *)
ResponseLen(q, pad) == q.len + 12 + 1 + TxtLen(q, pad)

Fits(q, pad) == ResponseLen(q, pad) <= MaxBytes

(* The padding that is drawn at random; the loop shrinks it until the      *)
(* response fits.                                                          *)
Drawn == IF PadMax > PadMin THEN PadMin..PadMax ELSE {PadMin}

Padding(q, drawn) ==
    IF Fits(q, drawn) THEN drawn ELSE MaxBytes - ResponseLen(q, 0)

(* What the page reads from the answer; cut short, it has no payload.      *)
Reply(q, drawn) ==
    [batch |-> q.batch, part |-> Part(q), total |-> Len(Chunks[q.batch]),
     whole |-> TxtLen(q, Padding(q, drawn)) >= BodyLen(q)]

(* thefeed is silent about what it has not got, and about a chunk that     *)
(* does not fit even without padding.                                      *)
Replies(q) == {Reply(q, d) : d \in {e \in Drawn : Exists(q) /\ Fits(q, 0)}}
=============================================================================
