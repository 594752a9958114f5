------------------------------ MODULE Dialogs ------------------------------
(***************************************************************************)
(* The dialogs of the base handlers and of the Kubernetes displays         *)
(* (internal/bot/handler, internal/bot/keyboard, internal/cluster/context, *)
(* internal/module/kubernetes): from a command to the views that its       *)
(* buttons lead to.                                                        *)
(*                                                                         *)
(* What a tap is about travels in the button: its parts, joined, are the   *)
(* callback data, or a short key for it in the callback store of the       *)
(* process if it is too long.  The cluster is in some buttons; the         *)
(* handlers of others ask the user's context for it.  There are two        *)
(* contexts: the bot's, which a selection of a cluster writes, and the     *)
(* Kubernetes module's, which nothing writes.                              *)
(*                                                                         *)
(* One message is followed, by its keyboard: an edit, or a new message     *)
(* that is followed from then on, gives another.  Callback data is a tuple *)
(* of parts.  Of the text of a view, what it says its buttons are about is *)
(* kept with each button; of the objects it lists, only the pages.         *)
(***************************************************************************)
EXTENDS Integers, Sequences, FiniteSets

CONSTANTS
    User, Cluster, Namespace,
    Long,       \* the namespaces whose name makes callback data too long
    Default,    \* the default cluster
    Pod, Container,     \* a pod, which every namespace has, and its container
    All,        \* "_all"
    None,
    NoName,     \* what names nothing: the hash of data, or parts joined
    Spaces,     \* Spaces[c], the sets of namespaces that c may come to have
    Pages       \* Pages[c], how many pages of objects its namespaces may have

ASSUME DialogsAssumption ==
    /\ Long \subseteq Namespace
    /\ Default \in Cluster
    /\ None \notin Namespace \cup Cluster \cup {All}
    /\ NoName \notin Namespace \cup Cluster \cup {All, None}
    /\ Spaces \in [Cluster -> SUBSET (SUBSET Namespace)]
    /\ \A c \in Cluster : Spaces[c] # {} /\ Pages[c] # {} /\ Pages[c] \subseteq Nat

VARIABLES
    menu,       \* the keyboard of the message
    store,      \* CallbackStore.data, of that keyboard: the data of its keys
    selected,   \* selected[x][u], what context x holds of user u, or None
    cache,      \* nsCache: cache[c], the names of c's namespaces, or None
    spaces,     \* spaces[c], the namespaces of c
    pages,      \* pages[c], how many pages of objects a namespace of c has
    strayed     \* history: a handler asked a cluster for something else
                \* than the button that was tapped stands for

view == <<menu, store, strayed>>
clusters == <<cache, spaces, pages>>
dialogs == <<view, selected, clusters>>
-----------------------------------------------------------------------------
(* The callback store.                                                     *)

TooLong(d) == \E i \in DOMAIN d : d[i] \in Long

\* Store, for each button of a new keyboard: data that is too long is kept, and
\* the button gets a hash of it, which no other data has.
Stored(new) == store \cup {b.data : b \in {x \in new : TooLong(x.data)}}

\* withResolve and Resolve: what the handler of a button finds in
\* Callback().Data.  A key that is not known is taken for the data.
Data(b) == IF TooLong(b.data) /\ b.data \notin store THEN <<NoName>> ELSE b.data

\* The data is one name to handlers that do not split it.
Whole(d) == IF Len(d) = 1 THEN d[1] ELSE NoName
-----------------------------------------------------------------------------
(* The contexts.                                                           *)

GetCluster(x, u) == IF selected[x][u] = None THEN Default ELSE selected[x][u]

\* Faulty: the Kubernetes module shares the bot's context.
Faulty_SetCluster(u, c) == [x \in DOMAIN selected |-> [selected[x] EXCEPT ![u] = c]]

\* The bot's context is its own: see bot.go.
SetCluster(u, c) == [selected EXCEPT !["bot"][u] = c]
-----------------------------------------------------------------------------
(* The keyboards.  A button leads to a handler, of a family; it carries    *)
(* data, and stands for a cluster and a namespace of it, or None.          *)

Btn(of, to, d, c, n) == [of |-> of, to |-> to, data |-> d, cluster |-> c, ns |-> n]

Lists == {"pods", "top", "quota", "deploys", "cronjobs"}

\* NamespaceSelector.  Its buttons do not name the cluster that its text does.
NamespaceSelector(of, c, names) == {Btn(of, "ns", <<n>>, c, n) : n \in names \cup {All}}

PodActions(c, n) ==
    {Btn("pod", to, <<Pod, n, c>>, c, n) : to \in {"logs", "events", "restart"}}
    \cup {Btn("pods", "back", <<n, c>>, c, None)}

\* LogActions: the next longer tail, if there is one.
LogActions(c, n, tail) ==
    {Btn("pod", "previous", <<Pod, n, c, Container>>, c, n), Btn("pod", "detail", <<Pod, n, c>>, c, n)}
    \cup {Btn("pod", "more", <<Pod, n, c, Container, t>>, c, n) : t \in {tail + 1} \cap {1}}

\* handleLogs, of a pod of several containers.
ContainerSelector(c, n) ==
    {Btn("pod", "container", <<Pod, n, c, Container>>, c, n),
     Btn("pod", "detail", <<Pod, n, c>>, c, n)}

\* Confirmation, of a restart.
RestartQuestion(c, n) == {Btn("pod", to, <<Pod, n, c>>, c, n) : to \in {"confirm", "cancel"}}

EventActions(c, n) == {Btn("pod", to, <<Pod, n, c>>, c, n) : to \in {"events", "detail"}}

\* Refresh, and the previous and the next page.
Paginator(of, c, n, i) ==
    {Btn(of, "page", <<n, c, j>>, c, n) : j \in {i - 1, i, i + 1} \cap 1..pages[c]}

PodButtons(c, n) ==
    {Btn("pod", "detail", <<Pod, m, c>>, c, m) : m \in IF n = All THEN spaces[c] ELSE {n}}

\* The keyboards of the lists, at a page of those that have pages: sendPodList,
\* sendPodTop, sendQuotaView, sendDeployList, sendCronJobList.
PodsMenu(c, n, i) == Paginator("pods", c, n, i) \cup PodButtons(c, n)
TopMenu(c, n, i) == Paginator("top", c, n, i) \cup {Btn("nodes", "refresh", <<c>>, c, None)}
QuotaMenu(c, n) == {Btn("quota", "refresh", <<n, c>>, c, n), Btn("quota", "again", <<c>>, c, None)}
DeploysMenu(c, n) == {Btn("deploys", "refresh", <<n, c>>, c, n)}
CronJobsMenu(c, n) == {Btn("cronjobs", "refresh", <<n, c>>, c, n)}

ListMenu(of, c, n, i) ==
    CASE of = "pods" -> PodsMenu(c, n, i)
      [] of = "top" -> TopMenu(c, n, i)
      [] of = "quota" -> QuotaMenu(c, n)
      [] of = "deploys" -> DeploysMenu(c, n)
      [] of = "cronjobs" -> CronJobsMenu(c, n)

NodesMenu(c) == {Btn("nodes", "refresh", <<c>>, c, None), Btn("top", "again", <<c>>, c, None)}

SpacesMenu(c) == {Btn("spaces", "refresh", <<c>>, c, None)}

Taps(of, to) == {b \in menu : b.of = of /\ b.to = to}
-----------------------------------------------------------------------------
(* What handlers do.                                                       *)

\* A call about something that there is, and that the button does not stand for.
Strays(b, c, n) ==
    /\ c \in Cluster
    /\ n \in spaces[c] \cup {All, None}
    /\ <<c, n>> # <<b.cluster, b.ns>>

\* The handler ends in one of the keyboards, by an edit that Telegram may
\* refuse or by another message, or, on an error or if there is none, in a word.
Show(menus) ==
    \/ \E new \in menus : \E m \in {new, menu} :
          /\ menu' = m
          /\ store' = Stored(new) \cap {b.data : b \in m}
    \/ UNCHANGED <<menu, store>>

Answer(b, c, n, menus) ==
    /\ strayed' = (strayed \/ Strays(b, c, n))
    /\ Show(menus)

\* getNamespaces, and the selector of a family for the cluster.
Select(of, c) ==
    LET names == IF cache[c] = None THEN spaces[c] ELSE cache[c]
    IN  /\ cache' = [cache EXCEPT ![c] = names]
        /\ Show({NamespaceSelector(of, c, names)})
        /\ UNCHANGED <<spaces, pages, selected>>

\* sendPodList, sendPodTop, sendQuotaView and the like.  The list of pods has
\* no page past the last one: the handler panics.  Any name has a quota view.
SendList(b, of, c, n, page) ==
    LET i == IF of = "top" /\ page > pages[c] THEN pages[c] ELSE page
        there == IF of = "quota" THEN n # All ELSE n \in spaces[c] \cup {All} /\ i \in 1..pages[c]
    IN  /\ Answer(b, c, n, IF there THEN {ListMenu(of, c, n, i)} ELSE {})
        /\ UNCHANGED <<selected, clusters>>
-----------------------------------------------------------------------------
(* The base handlers.                                                      *)

\* A tap on a cluster of the list that /start or /clusters sent, some time.
ClusterSelect(u, c) ==
    /\ selected' = SetCluster(u, c)
    /\ UNCHANGED <<view, clusters>>
-----------------------------------------------------------------------------
(* The handlers of the Kubernetes displays, and a command of user u.       *)

\* A command that asks for a namespace.
Command(of, u) == Select(of, GetCluster("k8s", u)) /\ UNCHANGED strayed

PodsCommand(u) == Command("pods", u)
TopCommand(u) == Command("top", u)
QuotaCommand(u) == Command("quota", u)

\* A command that shows something at once.
DirectCommand(menus) == Show(menus) /\ UNCHANGED <<strayed, selected, clusters>>

\* A command with the namespace beside it sends the list of that namespace.
ListCommand(of, u) ==
    LET c == GetCluster("k8s", u)
    IN  DirectCommand({ListMenu(of, c, n, 1) : n \in {m \in spaces[c] \cup {All} : pages[c] > 0}})

DeploysCommand(u) == Command("deploys", u) \/ ListCommand("deploys", u)
CronJobsCommand(u) == Command("cronjobs", u) \/ ListCommand("cronjobs", u)

\* /top nodes, /namespaces, and /logs and /events of a pod by its name.
TopNodes(u) == DirectCommand({NodesMenu(GetCluster("k8s", u))})
NamespacesCommand(u) == DirectCommand({SpacesMenu(GetCluster("k8s", u))})
LogsCommand(u) ==
    LET c == GetCluster("k8s", u) IN DirectCommand({LogActions(c, n, 0) : n \in spaces[c]})
EventsCommand(u) ==
    LET c == GetCluster("k8s", u) IN DirectCommand({EventActions(c, n) : n \in Namespace})

\* /restart of a pod by its name.  This question alone carries long data itself,
\* which Telegram may refuse: the model has it stored too, and may lose it.
RestartCommand(u) ==
    LET c == GetCluster("k8s", u) IN DirectCommand({RestartQuestion(c, n) : n \in spaces[c]})

\* A button of a namespace selector.
NamespaceTap(of, u) ==
    \E b \in Taps(of, "ns") : SendList(b, of, GetCluster("k8s", u), Whole(Data(b)), 1)

PodsNamespaceSelect(u) == NamespaceTap("pods", u)
TopNamespaceSelect(u) == NamespaceTap("top", u)
QuotaNamespaceSelect(u) == NamespaceTap("quota", u)
DeploysNamespaceSelect(u) == NamespaceTap("deploys", u)
CronJobsNamespaceSelect(u) == NamespaceTap("cronjobs", u)

\* Back to the namespaces of the cluster in the data, or the user's.
PodsBack(u) ==
    \E b \in Taps("pods", "back") :
        LET d == Data(b)
            c == IF Len(d) >= 2 THEN d[2] ELSE GetCluster("k8s", u)
        IN  /\ strayed' = (strayed \/ Strays(b, c, None))
            /\ Select("pods", c)

\* Back from a quota, and from the nodes: as the command does.
Again(of, u) ==
    \E b \in Taps(of, "again") :
        /\ strayed' = (strayed \/ Strays(b, GetCluster("k8s", u), None))
        /\ Select(of, GetCluster("k8s", u))

QuotaBack(u) == Again("quota", u)
TopBack(u) == Again("top", u)

Page(of) ==
    \E b \in Taps(of, "page") :
        LET d == Data(b) IN Len(d) = 3 /\ SendList(b, of, d[2], d[1], d[3])

PodsPage == Page("pods")
TopPage == Page("top")

Refresh(of) ==
    \E b \in Taps(of, "refresh") :
        LET d == Data(b) IN Len(d) = 2 /\ SendList(b, of, d[2], d[1], 1)

QuotaRefresh == Refresh("quota")
DeploysRefresh == Refresh("deploys")
CronJobsRefresh == Refresh("cronjobs")

\* sendNodeTop: the button's cluster is not read.
NodesRefresh(u) ==
    \E b \in Taps("nodes", "refresh") :
        LET c == GetCluster("k8s", u)
        IN  Answer(b, c, None, {NodesMenu(c)}) /\ UNCHANGED <<selected, clusters>>

NamespacesRefresh ==
    \E b \in Taps("spaces", "refresh") :
        LET c == Whole(Data(b))
        IN  /\ Answer(b, c, None, IF c \in Cluster THEN {SpacesMenu(c)} ELSE {})
            /\ UNCHANGED <<selected, clusters>>

\* A tap on a button that names a pod leads to one of the keyboards Menus(c, n),
\* if the data has so many parts.
PodTap(to, parts, needed, Menus(_, _)) ==
    \E b \in Taps("pod", to) :
        LET d == Data(b)
        IN  /\ Len(d) = parts
            /\ Answer(b, d[3], d[2],
                      IF needed => d[2] \in spaces[d[3]] THEN Menus(d[3], d[2]) ELSE {})
            /\ UNCHANGED <<selected, clusters>>

Detail == PodTap("detail", 3, TRUE, LAMBDA c, n : {PodActions(c, n)})
Logs == PodTap("logs", 3, TRUE, LAMBDA c, n : {ContainerSelector(c, n), LogActions(c, n, 0)})
LogsContainer == PodTap("container", 4, TRUE, LAMBDA c, n : {LogActions(c, n, 0)})
LogsMore == PodTap("more", 5, TRUE, LAMBDA c, n : {LogActions(c, n, 1)})
LogsPrevious == PodTap("previous", 4, TRUE, LAMBDA c, n : {LogActions(c, n, 0)})
Events == PodTap("events", 3, FALSE, LAMBDA c, n : {EventActions(c, n)})

\* The Restart button of a pod, and Confirm and Cancel of its question.  The
\* text that tells of the deletion has no buttons; module NodeOps has what
\* becomes of the pod.
RestartAsk == PodTap("restart", 3, FALSE, LAMBDA c, n : {RestartQuestion(c, n)})
RestartConfirm == PodTap("confirm", 3, TRUE, LAMBDA c, n : {{}})
RestartCancel == PodTap("cancel", 3, TRUE, LAMBDA c, n : {PodActions(c, n)})
-----------------------------------------------------------------------------
(* What happens besides.                                                   *)

\* Another dialog stores the data of a button of the message again.
StoredAgain ==
    /\ \E b \in menu : store' = Stored({b})
    /\ UNCHANGED <<menu, strayed, selected, clusters>>

\* The process restarts: the store, the contexts and the cache are in memory.
Restart ==
    /\ store' = {}
    /\ selected' = [x \in DOMAIN selected |-> [u \in User |-> None]]
    /\ cache' = [c \in Cluster |-> None]
    /\ UNCHANGED <<menu, strayed, spaces, pages>>

\* An entry of the cache is a minute old.
Expire ==
    /\ \E c \in Cluster : cache' = [cache EXCEPT ![c] = None]
    /\ UNCHANGED <<view, selected, spaces, pages>>

\* A cluster comes to have other namespaces, or other objects.
SpacesChange ==
    /\ \E c \in Cluster : \E s \in Spaces[c] : spaces' = [spaces EXCEPT ![c] = s]
    /\ UNCHANGED <<view, selected, cache, pages>>

PagesChange ==
    /\ \E c \in Cluster : \E i \in Pages[c] : pages' = [pages EXCEPT ![c] = i]
    /\ UNCHANGED <<view, selected, cache, spaces>>
-----------------------------------------------------------------------------
DialogsInit ==
    /\ menu = {}
    /\ store = {}
    /\ selected = [x \in {"bot", "k8s"} |-> [u \in User |-> None]]
    /\ cache = [c \in Cluster |-> None]
    /\ spaces = [c \in Cluster |-> CHOOSE s \in Spaces[c] : TRUE]
    /\ pages = [c \in Cluster |-> CHOOSE i \in Pages[c] : TRUE]
    /\ strayed = FALSE

Commanded(u) ==
    \/ PodsCommand(u) \/ TopCommand(u) \/ QuotaCommand(u) \/ DeploysCommand(u) \/ CronJobsCommand(u)
    \/ TopNodes(u) \/ NamespacesCommand(u) \/ LogsCommand(u) \/ EventsCommand(u) \/ RestartCommand(u)

NamespaceSelected(u) ==
    \/ PodsNamespaceSelect(u) \/ TopNamespaceSelect(u) \/ QuotaNamespaceSelect(u)
    \/ DeploysNamespaceSelect(u) \/ CronJobsNamespaceSelect(u)

Tapped(u) ==
    \/ PodsBack(u) \/ QuotaBack(u) \/ TopBack(u) \/ NodesRefresh(u)
    \/ PodsPage \/ TopPage \/ QuotaRefresh \/ DeploysRefresh \/ CronJobsRefresh \/ NamespacesRefresh
    \/ Detail \/ Logs \/ LogsContainer \/ LogsMore \/ LogsPrevious \/ Events
    \/ RestartAsk \/ RestartConfirm \/ RestartCancel

Displayed ==
    \/ \E u \in User : Commanded(u) \/ NamespaceSelected(u) \/ Tapped(u)
    \/ \E u \in User, c \in Cluster : ClusterSelect(u, c)
    \/ PagesChange

Meanwhile == StoredAgain \/ Expire \/ SpacesChange
-----------------------------------------------------------------------------
\* A tap is carried out on the cluster and the namespace that the message
\* said, or on nothing that there is, through restarts that lose the short
\* keys and the contexts, and through a change of the user's cluster between
\* the message and the tap (withResolve, NamespaceTap, PodsBack, Page).
ActsAsSaid == ~strayed
=============================================================================
