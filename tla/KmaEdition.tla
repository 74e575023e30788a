------------------------------ MODULE KmaEdition ------------------------------
(***************************************************************************)
(* How the weather clients of clients/hub_clients.py read one forecast or  *)
(* measurement (KMAClient, AirKoreaClient): over pages for the short-term  *)
(* forecast, in one call for the others, with one repetition after a 429,  *)
(* while the provider may still be publishing.                             *)
(*                                                                         *)
(* A row is its key (date, time, category); the provider lists its rows in *)
(* some order that a new row or a rearrangement shifts between two pages.  *)
(* Malformed envelopes, items and totals are one kind of failure.          *)
(***************************************************************************)
EXTENDS Integers, Sequences, FiniteSets, SequencesExt

CONSTANTS
  RowKeys,      \* keys of an edition
  PageRows,     \* KMA_NUMOFROWS
  MaxKmaPages   \* the page budget of fetch_short_term

ASSUME KmaAssumption ==
  /\ IsFiniteSet(RowKeys)
  /\ PageRows \in Nat \ {0} /\ MaxKmaPages \in Nat \ {0}

VARIABLES
  call,      \* which client method
  listed,    \* the provider's rows in order
  reader,    \* [pc, page, items, total: of the first page, -1 before]
  heldThen   \* history: what the provider listed when the last page was read

kmaVars == <<call, listed, reader, heldThen>>

Methods == {"short", "mid", "nowcast", "air"}

\* The provider repeats no row.
Lists == {s \in SeqOf(RowKeys, Cardinality(RowKeys)) : IsInjective(s)}

Rows(s) == {s[i] : i \in DOMAIN s}

\* asking: the request is out; limited: it got a 429 and is repeated.
Asking == {"asking", "limited"}

KmaTypeOK ==
  /\ call \in Methods
  /\ listed \in Lists
  /\ reader.pc \in Asking \cup {"returned", "failed"}
  /\ reader.page \in 1..MaxKmaPages + 1
  /\ Rows(reader.items) \subseteq RowKeys
  /\ reader.total \in -1..Cardinality(RowKeys)
  /\ heldThen \subseteq RowKeys

KmaInit ==
  /\ call \in Methods
  /\ listed \in Lists
  /\ reader = [pc |-> "asking", page |-> 1, items |-> <<>>, total |-> -1]
  /\ heldThen = {}

-----------------------------------------------------------------------------
\* The provider adds a row somewhere.
Publish ==
  /\ \E k \in RowKeys \ Rows(listed), i \in 1..Len(listed) + 1 :
       listed' = InsertAt(listed, i, k)
  /\ UNCHANGED <<call, reader, heldThen>>

\* It lists its rows in another order.
Rearrange ==
  /\ \E i, j \in DOMAIN listed :
       /\ i < j
       /\ listed' = [listed EXCEPT ![i] = listed[j], ![j] = listed[i]]
  /\ UNCHANGED <<call, reader, heldThen>>

\* _get_json: a first 429 is waited out, a second is a failure.
RateLimit ==
  /\ reader.pc = "asking" /\ call # "air"
  /\ reader' = [reader EXCEPT !.pc = "limited"]
  /\ UNCHANGED <<call, listed, heldThen>>

\* Transport, status, JSON, envelope, items or total are not as they must be.
AskFails ==
  /\ reader.pc \in Asking
  /\ reader' = [reader EXCEPT !.pc = "failed"]
  /\ UNCHANGED <<call, listed, heldThen>>

Page(p) == SubSeq(listed, (p - 1) * PageRows + 1,
                  IF p * PageRows < Len(listed) THEN p * PageRows ELSE Len(listed))

\* Mutant of NoRepeats: repeated rows go unnoticed.
RepeatsUnnoticed(items) == TRUE

NoRepeats(items) == IsInjective(items)

\* fetch_short_term's judgement of a page: on to the next, done, or failed.
Judge(batch, total) ==
  LET items == reader.items \o batch IN
  IF \/ batch = <<>>
     \/ reader.total \notin {-1, total}
     \/ Len(items) > total
     \/ Len(items) = total /\ ~NoRepeats(items)
     \/ Len(items) < total /\ reader.page = MaxKmaPages
  THEN [reader EXCEPT !.pc = "failed"]
  ELSE [pc |-> IF Len(items) = total THEN "returned" ELSE "asking",
        page |-> reader.page + 1, items |-> items, total |-> total]

ReadPage ==
  /\ call = "short" /\ reader.pc \in Asking
  /\ reader' = Judge(Page(reader.page), Len(listed))
  /\ heldThen' = Rows(listed)
  /\ UNCHANGED <<call, listed>>

\* fetch_mid_land, fetch_mid_temp: the first row; fetch_nowcast and
\* fetch_sido_realtime: what one page holds.
ReadOnce ==
  /\ call # "short" /\ reader.pc \in Asking
  /\ LET rows == IF call = "mid" /\ listed # <<>> THEN <<Head(listed)>>
                ELSE Page(1) IN
     reader' = [reader EXCEPT !.pc = IF rows = <<>> THEN "failed" ELSE "returned",
                              !.items = rows]
  /\ heldThen' = Rows(listed)
  /\ UNCHANGED <<call, listed>>

KmaNext ==
  Publish \/ Rearrange \/ RateLimit \/ AskFails \/ ReadPage \/ ReadOnce

KmaSpec == KmaInit /\ [][KmaNext]_kmaVars

-----------------------------------------------------------------------------
\* A short-term forecast that is returned is the whole edition, each row once,
\* as the provider held it while the last page was read: rows that are added
\* or change places between two pages make the read fail rather than leave a
\* hole that would be stored as the edition.
WholeEdition ==
  call = "short" /\ reader.pc = "returned" =>
    /\ Rows(reader.items) = heldThen
    /\ Len(reader.items) = Cardinality(heldThen)
=============================================================================
