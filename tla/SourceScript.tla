---------------------------- MODULE SourceScript ----------------------------
(***************************************************************************)
(* The vocabulary in which the resources modules say what a source does    *)
(* with given contents: the requests and reads it makes and the fragments  *)
(* it yields, in order, and for each of them where the code goes on when   *)
(* it fails. Only the data decide what a script is; SourceScan runs it,    *)
(* concurrently and with failures.                                         *)
(***************************************************************************)
EXTENDS Integers, Sequences, FiniteSets, SequencesExt

Fatal == -1   (* the error is returned to the caller of the script          *)

(* op: what is done; in: to which input; how many steps are passed over    *)
(* after a failure (onErr), a 404 or 410 (onGone), and a refusal or a      *)
(* cancellation (onStop), or Fatal; tell: the failure is yielded first, as *)
(* a step that names the inputs it is the failure of.                      *)
Step(op, in) ==
  [op |-> op, in |-> in, onErr |-> Fatal, onGone |-> Fatal, onStop |-> Fatal, tell |-> FALSE,
   of |-> {}]

Fetch == <<Step("fetch", "none")>>
Fail  == <<Step("fail", "none")>>      \* what the contents themselves make fail
Emit(input) == <<Step("yield", input)>>
Download(input) == Fetch \o Emit(input)

When(condition, script) == IF condition THEN script ELSE <<>>

(* The caller logs every error of the script and goes on after it.          *)
Behind(script, k, over) == IF over = Fatal THEN Len(script) - k ELSE over

Logged(script) ==
  [k \in DOMAIN script |->
     [script[k] EXCEPT !.onErr = Behind(script, k, @), !.onGone = Behind(script, k, @),
                       !.onStop = Behind(script, k, @)]]

(* The caller goes on after a failure, but not after a refusal or with a    *)
(* done context.                                                            *)
Skipped(script) ==
  [k \in DOMAIN script |->
     [script[k] EXCEPT !.onErr = Behind(script, k, @), !.onGone = Behind(script, k, @)]]

(* Likewise, and the failure is yielded as an error of the source.          *)
Reported(script) ==
  [k \in DOMAIN script |->
     [script[k] EXCEPT !.tell = @ \/ script[k].onErr = Fatal,
                       !.onErr = Behind(script, k, @), !.onGone = Behind(script, k, @)]]

(* The caller goes on after a 404 or 410 only.                              *)
GoneIgnored(script) ==
  [k \in DOMAIN script |-> [script[k] EXCEPT !.onGone = Behind(script, k, @)]]

Concat(scripts) == FlattenSeq(scripts)
ForEach(items, Body(_)) == Concat([k \in DOMAIN items |-> Body(items[k])])

(* A listing: each page is fetched, then its items are handled in order.    *)
Paged(pages, Body(_)) ==
  Concat([k \in DOMAIN pages |-> Fetch \o ForEach(pages[k], Body)])

(* The first page came with the parent; only the tail is fetched.           *)
FirstInHand(pages, Body(_)) ==
  IF pages = <<>> THEN <<>> ELSE Tail(Paged(pages, Body))

(* A listing that ends for good with the first item that Ends, or, with no  *)
(* such item, with its last page.                                           *)
CutAt(pages, Ends(_)) ==
  LET last == SelectInSeq(pages, LAMBDA page : SelectInSeq(page, Ends) > 0)
  IN  IF last = 0 THEN pages
      ELSE SubSeq(pages, 1, last - 1) \o
           <<SubSeq(pages[last], 1, SelectInSeq(pages[last], Ends) - 1)>>

(* A second sending of the same thing is passed over.                      *)
Send(name) == <<Step("send", name)>>
SentOnce(script) ==
  Concat([k \in DOMAIN script |->
    When(~\E j \in 1..k - 1 : script[k].op = "send" /\ script[j] = script[k], <<script[k]>>)])

InputsOf(script) == {script[k].in : k \in {j \in DOMAIN script : script[j].op = "yield"}}

(* The values of all items of a list of pages.                              *)
Items(pages) == UNION {ToSet(pages[k]) : k \in DOMAIN pages}

(* What Fragments is to do, and the scripts of what it sends over a channel:*)
(* a source with one script, unless it says otherwise. A source wraps yield *)
(* with a mutex, and with a cancel of its own context after a refusal.      *)
OneScript(script) ==
  [accepted |-> TRUE, dispatch |-> <<>>, main |-> script, enumerate |-> FALSE, listing |-> <<>>,
   wrapped |-> FALSE, scripts |-> <<>>, groups |-> <<>>]
=============================================================================
