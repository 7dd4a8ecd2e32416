----------------------------- MODULE PageAssets -----------------------------
(***************************************************************************)
(* A page and the assets it names, from replicas that are being deployed   *)
(* one by one (server/pages.rs).  A page names every asset with the hash   *)
(* of its bytes, and the server says how long each answer may be reused:   *)
(* the page never without asking, an asset for ever when the hash asked    *)
(* for is that of the bytes sent.  A replica of another build has other    *)
(* bytes under the same path and sends those.                              *)
(*                                                                         *)
(* script stands for the page's assets; hashes and entity tags are the     *)
(* contents they stand for.  The browser reuses what it was allowed to,    *)
(* and asks again, naming what it has, for the rest.                       *)
(***************************************************************************)
EXTENDS Naturals, Negotiation

CONSTANTS
    Replicas,
    Builds,         \* what a build serves: its page's contents and its script's
    Deploys         \* bound: deploys begun, roll-backs among them

VARIABLES
    target,         \* the build being deployed
    serving,        \* what each replica serves
    deploys,
    page,           \* the page the browser has in its cache
    scripts,        \* the answer it has for each hash
    load,           \* what it is loading: nothing, or the script of its page
    shown,          \* the page and the script that run
    calm            \* no deploy was under way since the load began

vars == <<target, serving, deploys, page, scripts, load, shown, calm>>

None == "none"
Nothing == [page |-> None, script |-> None]
NoAnswer == [bytes |-> None, policy |-> "revalidate"]
Pages == {b.page : b \in Builds}
Scripts == {b.script : b \in Builds}
ScriptOf(p) == (CHOOSE b \in Builds : b.page = p).script

(* Asset URLs are part of the page: builds with one page have one script.  *)
ASSUME BuildsTyped ==
    /\ Builds \subseteq [page : STRING, script : STRING]
    /\ None \notin Pages \cup Scripts
    /\ \A b, c \in Builds : b.page = c.page => b.script = c.script
ASSUME DeploysTyped == Deploys \in Nat

Settled == \A r \in Replicas : serving[r] = target

Init ==
    /\ target \in Builds /\ serving = [r \in Replicas |-> target] /\ deploys = 0
    /\ page = None /\ scripts = [h \in Scripts |-> NoAnswer]
    /\ load = "idle" /\ shown = Nothing /\ calm = FALSE

-----------------------------------------------------------------------------
(* The deploy.                                                             *)

DeployBegins ==
    /\ deploys < Deploys
    /\ deploys' = deploys + 1
    /\ target' \in Builds \ {target}
    /\ calm' = FALSE
    /\ UNCHANGED <<serving, page, scripts, load, shown>>

ReplicaRestarts(r) ==
    /\ serving[r] # target
    /\ serving' = [serving EXCEPT ![r] = target]
    /\ UNCHANGED <<target, deploys, page, scripts, load, shown, calm>>

-----------------------------------------------------------------------------
(* The server's answers.                                                   *)

(* Fault: another build's hash is as good as none.                         *)
CacheControlAnyDay(asked, sent) == IF asked = sent THEN "immutable" ELSE "one day"

(* serve_static's policy for a request with this hash and these bytes.     *)
CacheControl(asked, sent) == IF asked = sent THEN "immutable" ELSE "revalidate"

(* none_match: the bytes are not sent again to one that has them.          *)
NotModified(held, current) == held = current

-----------------------------------------------------------------------------
(* The browser.                                                            *)

(* It loads the page, which it always asks for.                            *)
GetPage(r) ==
    /\ load = "idle"
    /\ page' = IF NotModified(page, serving[r].page) THEN page ELSE serving[r].page
    /\ load' = "script"
    /\ shown' = Nothing
    /\ calm' = Settled
    /\ UNCHANGED <<target, serving, deploys, scripts>>

Shows(script) ==
    /\ load' = "idle"
    /\ shown' = [page |-> page, script |-> script]
    /\ UNCHANGED <<target, serving, deploys, page, calm>>

(* The script it may reuse, within the day at least.                       *)
ReuseScript ==
    LET held == scripts[ScriptOf(page)]
    IN  /\ load = "script"
        /\ held.policy # "revalidate"
        /\ Shows(held.bytes)
        /\ UNCHANGED scripts

(* Or it asks.                                                             *)
GetScript(r) ==
    LET asked == ScriptOf(page)
        held  == scripts[asked]
        sent  == serving[r].script
        bytes == IF NotModified(held.bytes, sent) THEN held.bytes ELSE sent
    IN  /\ load = "script"
        /\ held.policy = "revalidate"
        /\ scripts' = [scripts EXCEPT ![asked] =
                         [bytes |-> bytes, policy |-> CacheControl(asked, sent)]]
        /\ Shows(bytes)

Next ==
    \/ DeployBegins \/ ReuseScript
    \/ \E r \in Replicas : ReplicaRestarts(r) \/ GetPage(r) \/ GetScript(r)

Spec == Init /\ [][Next]_vars

-----------------------------------------------------------------------------
(* Properties.                                                             *)

TypeOK ==
    /\ target \in Builds /\ serving \in [Replicas -> Builds] /\ deploys \in 0 .. Deploys
    /\ page \in Pages \cup {None}
    /\ scripts \in [Scripts -> [bytes : Scripts \cup {None},
                                policy : {"immutable", "revalidate"}]]
    /\ load \in {"idle", "script"} /\ (load = "script" => page \in Pages)
    /\ shown \in [page : Pages, script : Scripts] \cup {Nothing}
    /\ calm \in BOOLEAN

(* A load with no deploy under way runs the current page with the script   *)
(* made for it, whatever mixtures earlier loads met and left in the cache: *)
(* after a deploy a reload mends the page.                                 *)
ReloadMends ==
    shown # Nothing /\ calm => shown = [page |-> target.page, script |-> target.script]

(* The first request, whatever its Accept header: a representation of the  *)
(* highest quality asked for, as its most specific range says; none only   *)
(* when both are refused; and HTML where only wildcards speak for either.  *)
ServesWhatWasAsked ==
    page = None /\ load = "idle" =>
      \A header \in Headers \ {<<>>} :
        LET served  == Preferred(header)
            Asks(r) == Asked(header, r)
            vague   == \A i \in DOMAIN header : Cardinality(Matched(header[i].range)) # 1
        IN  /\ served = "none" <=> \A r \in Representations : Asks(r) = 0
            /\ served # "none" => Asks(served) = Max({Asks(r) : r \in Representations})
            /\ vague /\ Asks("html") > 0 => served = "html"
=============================================================================
