-------------------------- MODULE UnknownDiscovery --------------------------
(* The search for the Buffer post of an attempt that went unknown without      *)
(* learning an operation's id: discover_buffer_unknown                         *)
(* (services/buffer_unknown_reconciliation_discovery.py) lists the channel's   *)
(* posts once per status, reads each listed post and compares it with the      *)
(* publication's snapshots. It writes nothing and permits no retry; what an    *)
(* operator may do with its report is confirm the pin                          *)
(* (services/publication_reconciliation.reconcile).                            *)
EXTENDS Naturals, Sequences, FiniteSets

CONSTANTS Posts,      \* posts of the channel inside the attempt's window
          PageSize    \* posts one listing returns (LIST_PAGE_SIZE)

VARIABLES upub,     \* status of the publication
          uroute,   \* its snapshots, route and settings still agree
          upost,    \* post -> [status, exact]: its status, and whether it is ours
          scan,     \* the discovery under way
          report    \* the last report

uvars == <<upub, uroute, upost, scan, report>>

DISCOVERY_STATUSES ==
  <<"draft", "error", "needs_approval", "scheduled", "sending", "sent">>

(* Where Buffer takes a post from each status.                                 *)
Progress ==
  [draft |-> {"needs_approval", "scheduled"},
   needs_approval |-> {"scheduled", "error"},
   scheduled |-> {"sending", "error"},
   sending |-> {"sent", "error"},
   sent |-> {}, error |-> {}]

NoScan == [pc |-> "idle", at |-> 1, listed |-> {}, short |-> FALSE]

UDInit ==
  /\ upub = "PUBLISH_UNKNOWN"
  /\ uroute = TRUE
  /\ upost \in [Posts -> [status : {"draft", "scheduled"}, exact : BOOLEAN]]
  /\ Cardinality({x \in Posts : upost[x].exact}) <= 1
  /\ scan = NoScan
  /\ report = "none"

(* A single unknown Buffer attempt, no operation, no pin, every identity equal.*)
StartScan ==
  /\ scan.pc = "idle"
  /\ upub = "PUBLISH_UNKNOWN" /\ uroute
  /\ scan' = [NoScan EXCEPT !.pc = "listing"]
  /\ UNCHANGED <<upub, uroute, upost, report>>

(* The statuses listed from the last a post reaches to the first.              *)
StatusBackwards(i) == DISCOVERY_STATUSES[Len(DISCOVERY_STATUSES) + 1 - i]

StatusListed(i) == DISCOVERY_STATUSES[i]

(* One listing: the posts in one status, at most a page of them.               *)
ListStatus ==
  /\ scan.pc = "listing" /\ scan.at <= Len(DISCOVERY_STATUSES)
  /\ LET there == {x \in Posts : upost[x].status = StatusListed(scan.at)} IN
     \E page \in SUBSET there :
       /\ Cardinality(page) = (IF Cardinality(there) < PageSize THEN Cardinality(there) ELSE PageSize)
       /\ scan' = [scan EXCEPT !.at = @ + 1, !.listed = @ \cup page, !.short = @ \/ page # there]
  /\ UNCHANGED <<upub, uroute, upost, report>>

(* Every listed post is read on its own and compared.                          *)
ReadListed ==
  LET matches == {x \in scan.listed : upost[x].exact} IN
  /\ scan.pc = "listing" /\ scan.at > Len(DISCOVERY_STATUSES)
  /\ scan' = [scan EXCEPT !.pc = "reported"]
  /\ report' = CASE matches = {} -> "ZERO_MATCH"
                [] Cardinality(matches) = 1 -> "UNIQUE_MATCH"
                [] OTHER -> "MULTIPLE_MATCHES"
  /\ UNCHANGED <<upub, uroute, upost>>

(* Buffer refuses a read: no report.                                           *)
ScanFails ==
  /\ scan.pc = "listing"
  /\ scan' = NoScan
  /\ UNCHANGED <<upub, uroute, upost, report>>

(* A report is not acted on by the program. The operator confirms a pin the    *)
(* sent post shows, or leaves the publication as it is.                        *)
ActOnReport ==
  /\ scan.pc = "reported"
  /\ scan' = NoScan
  /\ \/ UNCHANGED upub
     \/ /\ report = "UNIQUE_MATCH" /\ upub = "PUBLISH_UNKNOWN"
        /\ \E x \in scan.listed : upost[x].exact /\ upost[x].status = "sent"
        /\ upub' = "PUBLISHED"
  /\ UNCHANGED <<uroute, upost, report>>

PostProgresses ==
  \E x \in Posts : \E s \in Progress[upost[x].status] :
    /\ upost' = [upost EXCEPT ![x].status = s]
    /\ UNCHANGED <<upub, uroute, scan, report>>

RouteDrifts ==
  /\ uroute' = ~uroute
  /\ UNCHANGED <<upub, upost, scan, report>>

UDNext == \/ StartScan \/ ListStatus \/ ReadListed \/ ScanFails \/ ActOnReport
          \/ PostProgresses \/ RouteDrifts

UDSpec == UDInit /\ [][UDNext]_uvars

DiscoveryTypeOK ==
  /\ upub \in {"PUBLISH_UNKNOWN", "PUBLISHED"}
  /\ scan.listed \subseteq Posts /\ scan.at \in 1..(Len(DISCOVERY_STATUSES) + 1)
  /\ report \in {"none", "ZERO_MATCH", "UNIQUE_MATCH", "MULTIPLE_MATCHES"}

(* The statuses are listed in the order in which a post goes through them, so  *)
(* one that moves on between two listings is caught by a later one: a scan that*)
(* missed our post met a full page, or the post fell into error behind it.     *)
ScanSeesPost ==
  scan.at > Len(DISCOVERY_STATUSES) =>
    \A x \in Posts : upost[x].exact =>
      x \in scan.listed \/ scan.short \/ upost[x].status = "error"

-----------------------------------------------------------------------------
(* Why it holds, of any post of the channel: what the scan has not listed is   *)
(* still in a status the scan has yet to list.                                 *)
DiscoveryShapes ==
  /\ upost \in [Posts -> [status : DOMAIN Progress, exact : BOOLEAN]]
  /\ scan \in [pc : {"idle", "listing", "reported"}, at : 1..7, listed : SUBSET Posts,
               short : BOOLEAN]

StillToList(x) == \E i \in scan.at..6 : upost[x].status = StatusListed(i)

NoneOvertakesTheScan ==
  \A x \in Posts : x \in scan.listed \/ scan.short \/ upost[x].status = "error" \/ StillToList(x)

DiscoveryInv == DiscoveryShapes /\ NoneOvertakesTheScan
=============================================================================
