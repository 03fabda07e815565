------------------------------ MODULE Simulator ------------------------------
(***************************************************************************)
(* The event simulator (simulators/simulate.py).  It goes round the        *)
(* templates, fills in the fields of one, posts the event, and goes on     *)
(* whatever the API answers.  Fields of different templates are tied by    *)
(* what the session remembers: a counter for each `sequence` field, and a  *)
(* pool of the values it gave, from which a `reference` field picks.       *)
(*                                                                         *)
(* A value matters only by where it came from: float, choice, faker and    *)
(* uuid fields are "plain", and a field is of kind "raises" if it cannot   *)
(* be generated at all.  Ctrl+C can come at any step.                      *)
(***************************************************************************)
EXTENDS Integers, Sequences, SequencesExt

CONSTANTS
    Present,    \* templates in simulators/events
    Template,   \* the fields of each, in the order of its file
    Sorted,     \* the names in alphabetical order
    Arguments,  \* what -e may list; << >> is no -e
    Count       \* -n; bound: without it the simulator goes on for ever

Kind == {"sequence", "int", "reference", "plain", "raises"}

\* `lo` is the first value of a sequence and the least of the other kinds.
FieldSpec == [field : STRING, kind : Kind, from : STRING, lo : Nat, hi : Nat]

ASSUME SimulatorAssumption ==
    /\ Template \in [Present -> Seq(FieldSpec)]
    /\ Present \subseteq ToSet(Sorted)
    /\ Count \in Nat

VARIABLES
    pc,
    args,   \* -e
    names,  \* the templates of this session
    seqs,   \* _sequences: the next value of each field counted so far
    pools,  \* _pools: the values each counted field was given
    data,   \* the fields of the event so far; `fallback`: a reference to an empty pool
    sent,   \* events sent, as the simulator counts them
    log     \* history: events posted, whether the answer was 202, whether the API took them

vars == <<pc, args, names, seqs, pools, data, sent, log>>

Running == {"next", "field", "post"}
Ended == {"done", "exit", "raised"}

\* _TEMPLATE_ORDER
TemplateOrder == <<"customer", "store", "product", "order", "order_item", "payment">>

\* _all_template_names
AllTemplateNames ==
    LET ordered == SelectSeq(TemplateOrder, LAMBDA n : n \in Present)
    IN  ordered \o SelectSeq(Sorted, LAMBDA n : n \in Present \ ToSet(ordered))

\* What SelectSeq keeps of a sequence of names is one.
ASSUME NamesAssumption ==
    AllTemplateNames \in Seq(Present) /\ Arguments \subseteq Seq(STRING)

Datum == [field : STRING, kind : Kind, from : STRING, value : Nat, fallback : BOOLEAN]
Post == [data : Seq(Datum), ok : BOOLEAN, taken : BOOLEAN]

TypeOK ==
    /\ pc \in {"load"} \cup Running \cup Ended
    /\ args \in Arguments
    /\ names \in Seq(Present)
    /\ \A f \in DOMAIN seqs : seqs[f] \in Nat
    /\ DOMAIN pools = DOMAIN seqs
    /\ data \in Seq(Datum) /\ log \in Seq(Post)
    /\ sent \in 0 .. Count

Init ==
    /\ pc = "load" /\ args \in Arguments
    /\ names = << >>
    /\ seqs = << >> /\ pools = << >>
    /\ data = << >> /\ sent = 0 /\ log = << >>

\* Mutant: a name without a template is let through.
LoadUnchecked ==
    /\ pc = "load"
    /\ names' = IF args = << >> THEN AllTemplateNames ELSE args
    /\ pc' = "next"
    /\ UNCHANGED <<args, seqs, pools, data, sent, log>>

\* main: a name without a template, or no template at all, ends the program.
Load ==
    /\ pc = "load"
    /\ LET listed == IF args = << >> THEN AllTemplateNames ELSE args IN
       IF listed # << >> /\ ToSet(listed) \subseteq Present
       THEN names' = listed /\ pc' = "next"
       ELSE pc' = "exit" /\ UNCHANGED names
    /\ UNCHANGED <<args, seqs, pools, data, sent, log>>

\* The head of the loop in run.
NextEvent ==
    /\ pc = "next"
    /\ pc' = IF sent < Count THEN "field" ELSE "done"
    /\ UNCHANGED <<args, names, seqs, pools, data, sent, log>>

-----------------------------------------------------------------------------
(* _generate_data, a field at a time.                                      *)

Fields == Template[names[(sent % Len(names)) + 1]]
Spec1 == Fields[Len(data) + 1]
MoreFields == pc = "field" /\ Len(data) < Len(Fields)

\* Python's f[x] = v.
With(f, x, v) == [y \in DOMAIN f \cup {x} |-> IF y = x THEN v ELSE f[y]]

Put(value, fallback) ==
    data' = Append(data, [field |-> Spec1.field, kind |-> Spec1.kind, from |-> Spec1.from,
                          value |-> value, fallback |-> fallback])

\* Mutant: the counter is advanced before its value is put in the pool.
CountAhead ==
    /\ MoreFields /\ Spec1.kind = "sequence"
    /\ LET f == Spec1.field
           val == IF f \in DOMAIN seqs THEN seqs[f] ELSE Spec1.lo
           pool == IF f \in DOMAIN pools THEN pools[f] ELSE {}
       IN  /\ Put(val, FALSE)
           /\ seqs' = With(seqs, f, val + 1)
           /\ pools' = With(pools, f, pool \cup {val + 1})
    /\ UNCHANGED <<pc, args, names, sent, log>>

\* Mutant: each template starts its counters anew.
CountAnew ==
    /\ MoreFields /\ Spec1.kind = "sequence"
    /\ LET f == Spec1.field
           pool == IF f \in DOMAIN pools THEN pools[f] ELSE {}
       IN  /\ Put(Spec1.lo, FALSE)
           /\ seqs' = With(seqs, f, Spec1.lo + 1)
           /\ pools' = With(pools, f, pool \cup {Spec1.lo})
    /\ UNCHANGED <<pc, args, names, sent, log>>

\* sequence: the next value, which joins the pool of the field.
Counted ==
    /\ MoreFields /\ Spec1.kind = "sequence"
    /\ LET f == Spec1.field
           val == IF f \in DOMAIN seqs THEN seqs[f] ELSE Spec1.lo
           pool == IF f \in DOMAIN pools THEN pools[f] ELSE {}
       IN  /\ Put(val, FALSE)
           /\ seqs' = With(seqs, f, val + 1)
           /\ pools' = With(pools, f, pool \cup {val})
    /\ UNCHANGED <<pc, args, names, sent, log>>

\* int, and the kinds whose value does not matter.
Random ==
    /\ MoreFields /\ Spec1.kind \in {"int", "plain"}
    /\ \E v \in Spec1.lo .. Spec1.hi : Put(v, FALSE)
    /\ UNCHANGED <<pc, args, names, seqs, pools, sent, log>>

\* Mutant: the pool is looked up by the name of the field.
ReferredByName ==
    /\ MoreFields /\ Spec1.kind = "reference"
    /\ IF Spec1.field \in DOMAIN pools
       THEN \E v \in pools[Spec1.field] : Put(v, FALSE)
       ELSE \E v \in Spec1.lo .. Spec1.hi : Put(v, TRUE)
    /\ UNCHANGED <<pc, args, names, seqs, pools, sent, log>>

\* reference: any value of the pool, or any number when there is none.
Referred ==
    /\ MoreFields /\ Spec1.kind = "reference"
    /\ IF Spec1.from \in DOMAIN pools
       THEN \E v \in pools[Spec1.from] : Put(v, FALSE)
       ELSE \E v \in Spec1.lo .. Spec1.hi : Put(v, TRUE)
    /\ UNCHANGED <<pc, args, names, seqs, pools, sent, log>>

\* An unknown kind, faker without its package or with an unknown method, a choice
\* without values, a least value above the greatest: only KeyboardInterrupt is caught.
Raise ==
    /\ MoreFields /\ Spec1.kind = "raises"
    /\ pc' = "raised"
    /\ UNCHANGED <<args, names, seqs, pools, data, sent, log>>

-----------------------------------------------------------------------------
EndData ==
    /\ pc = "field" /\ Len(data) = Len(Fields)
    /\ pc' = "post"
    /\ UNCHANGED <<args, names, seqs, pools, data, sent, log>>

\* What a post can come to: 202; another status; no answer within 10 s, after
\* which the API may or may not have taken the event.  What --dry-run prints in
\* place of a post goes on like a post that was refused.
Outcome == {[ok |-> TRUE, taken |-> TRUE], [ok |-> FALSE, taken |-> FALSE],
            [ok |-> FALSE, taken |-> TRUE]}

Log(o) == log' = Append(log, [data |-> data, ok |-> o.ok, taken |-> o.taken])

\* Mutant: an event that was not answered 202 is posted again.
PostAgain ==
    /\ pc = "post"
    /\ \E o \in Outcome :
          IF o.ok THEN Log(o) /\ sent' = sent + 1 /\ data' = << >> /\ pc' = "next"
                  ELSE pc' = "field" /\ UNCHANGED <<data, sent, log>>
    /\ UNCHANGED <<args, names, seqs, pools>>

\* _post, and the rest of the loop: the event is not tried again.
PostEvent ==
    /\ pc = "post"
    /\ \E o \in Outcome : Log(o)
    /\ sent' = sent + 1
    /\ data' = << >> /\ pc' = "next"
    /\ UNCHANGED <<args, names, seqs, pools>>

\* Ctrl+C: an event being posted may have been taken, and is not counted.
Interrupt ==
    /\ pc \in Running
    /\ pc' = "done"
    /\ \/ UNCHANGED log
       \/ pc = "post" /\ Log([ok |-> FALSE, taken |-> TRUE])
    /\ UNCHANGED <<args, names, seqs, pools, data, sent>>

Finished == pc \in Ended /\ UNCHANGED vars

Step ==
    \/ Load \/ NextEvent \/ Counted \/ Random \/ Referred \/ Raise
    \/ EndData \/ PostEvent

Next == Step \/ Interrupt \/ Finished

\* Every call the simulator makes returns or raises: a post has a timeout.
Spec == Init /\ [][Next]_vars /\ WF_vars(Step)

-----------------------------------------------------------------------------
(* Properties.                                                             *)

\* No template refers to a key that it counts itself.
RefersToOthers ==
    \A n \in Present : \A k, l \in DOMAIN Template[n] :
        Template[n][k].kind = "sequence" /\ Template[n][l].kind = "reference" =>
            Template[n][l].from # Template[n][k].field

\* A key that is a random number, for want of any in its pool, is one that no earlier
\* post counted, whichever template it was in and whatever became of it.
FallsBackOnlyUncounted ==
    \A i \in DOMAIN log : \A d \in ToSet(log[i].data) :
        d.kind = "reference" /\ d.fallback =>
            \A j \in 1 .. i - 1 : \A e \in ToSet(log[j].data) :
                ~(e.kind = "sequence" /\ e.field = d.from)

\* A reference that is drawn from a pool names a key that an earlier post carried.
\* That post may have failed: its key is in the pool all the same.
ReferencesWerePosted ==
    \A i \in DOMAIN log : \A d \in ToSet(log[i].data) :
        d.kind = "reference" /\ ~d.fallback =>
            \E j \in 1 .. i - 1 : \E e \in ToSet(log[j].data) :
                e.field = d.from /\ e.value = d.value

\* No two events of a session carry the same key, whatever templates count the
\* field and however posts fail.
KeysNeverRepeat ==
    \A i, j \in DOMAIN log : \A d \in ToSet(log[i].data), e \in ToSet(log[j].data) :
        i < j /\ d.kind = "sequence" /\ e.kind = "sequence" /\ d.field = e.field =>
            d.value # e.value

\* A session with -n comes to an end, though no post succeeds.
CountEndsSession == <>(pc \in Ended)
=============================================================================
