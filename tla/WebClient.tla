------------------------------ MODULE WebClient ------------------------------
(***************************************************************************)
(* The web client: the address it is opened at decides which page it       *)
(* mounts (App.tsx:21-31), and every link is a new document.  Of the       *)
(* product's page either the attempts and messages or the chat are         *)
(* followed: what one load brings of the two is independent.               *)
(***************************************************************************)
EXTENDS ProductPage, ProductChat, CatalogPage

VARIABLE mounted

vars == <<productVars, chatVars, catalogVars, mounted>>

Init ==
    /\ mounted \in {"product", "chat", "catalog"}
    /\ ProductInit /\ ChatInit /\ CatalogInit

OnProduct(Step) == mounted = "product" /\ Step /\ UNCHANGED <<chatVars, catalogVars, mounted>>

OnChat(Step) == mounted = "chat" /\ Step /\ UNCHANGED <<productVars, catalogVars, mounted>>

OnCatalog(Step) == mounted = "catalog" /\ Step /\ UNCHANGED <<productVars, chatVars, mounted>>

Next == OnProduct(ProductNext) \/ OnChat(ChatNext) \/ OnCatalog(CatalogNext)

\* The worker works, requests are answered, timers fire.
Fairness ==
    /\ WF_vars(OnProduct(Work)) /\ WF_vars(OnProduct(Polls))
    /\ \A l \in Loads : WF_vars(OnProduct(LoadStep(l)))
    /\ \A p \in SearchProcs : WF_vars(OnCatalog(Searches(p)))
    /\ WF_vars(OnCatalog(PollsCatalog))
    /\ \A l \in CatalogLoads : WF_vars(OnCatalog(CatalogStep(l)))

Spec == Init /\ [][Next]_vars /\ Fairness

-----------------------------------------------------------------------------
\* What either page shows as under way it comes to show settled.
PagesSettle == ProductPageSettles /\ CatalogPageSettles

=============================================================================
