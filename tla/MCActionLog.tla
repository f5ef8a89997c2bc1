---------------------------- MODULE MCActionLog ----------------------------
(* TLC instances of ActionLog: a scenario for each family of actions, with *)
(* the curated state it starts from.                                       *)
EXTENDS ActionLog

CONSTANTS w1, w2

Bug == <<"bug", "Bug">>
bug == <<"bug", "bug">>
UI  == <<"ui", "UI">>
API == <<"api", "API">>

Actors == {"user", "agent"}
Plain == [vocab |-> {}, nextId |-> 5, verdicts |-> [f \in {"f"} |-> NoVerdict],
          suppressed |-> {}, views |-> {}, opinions |-> [p \in Actors |-> NoOpinion],
          settings |-> [p \in Actors |-> NoSettings]]
WithVocab(entries) == [Plain EXCEPT !.vocab = entries]

By(actor, auto, a) == a @@ [actor |-> actor, auto |-> auto]
User(a)   == By("user", FALSE, a)
Agent(a)  == By("agent", TRUE, a)
Asking(a) == By("agent", FALSE, a)

DefineA(vocab, parent, name, descr, aliases) ==
    [kind |-> "define", vocab |-> vocab, parent |-> parent, name |-> name, descr |-> descr,
     aliases |-> aliases]
OnEntry(kind, id) == [kind |-> kind, id |-> id]

Category == Entry(1, "category", 0, Bug, "old")
Sub      == Entry(2, "subcategory", 1, UI, None)
Product  == [Entry(3, "product", 0, UI, None) EXCEPT !.aliases = {"x"}]

AllScripts == {
  \* an agent proposes a category and a child of an existing one
  [start |-> WithVocab({Category}),
   requests |-> <<Asking(DefineA("subcategory", 1, UI, None, {})),
                  User(OnEntry("delete", 1)),
                  Asking(DefineA("category", 0, bug, "new", {"b"}))>>],
  \* a level at its cap
  [start |-> WithVocab({Category}),
   requests |-> <<Agent(DefineA("category", 0, UI, "d", {})),
                  Agent(DefineA("category", 0, API, None, {})),
                  User(OnEntry("delete", 1))>>],
  \* children of one parent: deleted first, or with the level
  [start |-> WithVocab({[Category EXCEPT !.frozen = TRUE], Sub}),
   requests |-> <<User(OnEntry("delete", 2)),
                  User([kind |-> "clear", vocab |-> "category"]),
                  Asking([kind |-> "freeze", id |-> 1, frozen |-> FALSE])>>],
  \* spellings and definitions
  [start |-> WithVocab({Category, Entry(4, "category", 0, UI, None)}),
   requests |-> <<User([kind |-> "rename", id |-> 4, name |-> API]),
                  Agent([kind |-> "redefine", id |-> 1, descr |-> "new"]),
                  Asking(DefineA("category", 0, UI, "d", {}))>>],
  \* a level cleared, and its names taken again
  [start |-> WithVocab({Category, Entry(4, "category", 0, API, None)}),
   requests |-> <<User([kind |-> "clear", vocab |-> "category"]),
                  User(DefineA("category", 0, API, None, {})),
                  Asking(DefineA("category", 0, UI, None, {}))>>],
  \* imported kinds
  [start |-> WithVocab({Product}),
   requests |-> <<User(DefineA("product", 3, API, None, {"y"})),
                  Agent([kind |-> "clear", vocab |-> "product"]),
                  Asking(DefineA("competitor", 3, API, None, {}))>>],
  \* verdicts
  [start |-> Plain,
   requests |-> <<User([kind |-> "dismiss", fingerprint |-> "f", reason |-> "known"]),
                  Agent([kind |-> "annotate", fingerprint |-> "f", note |-> "n"]),
                  Asking([kind |-> "pin", fingerprint |-> "f", pinned |-> FALSE])>>],
  \* a target suppressed twice, and an action that cannot be undone
  [start |-> Plain,
   requests |-> <<User([kind |-> "suppress", target |-> "t"]),
                  Agent([kind |-> "suppress", target |-> "t"]),
                  Agent([kind |-> "rebuild"])>>],
  \* views
  [start |-> [Plain EXCEPT !.views = {[id |-> 1, name |-> Bug, spec |-> "s", by |-> "user"]}],
   requests |-> <<User([kind |-> "save_view", id |-> 0, name |-> UI, spec |-> "t"]),
                  Agent([kind |-> "rename_view", id |-> 1, name |-> UI]),
                  User([kind |-> "delete_view", id |-> 1])>>],
  [start |-> [Plain EXCEPT !.views = {[id |-> 1, name |-> Bug, spec |-> "s", by |-> "user"]}],
   requests |-> <<User([kind |-> "save_view", id |-> 1, name |-> UI, spec |-> "t"]),
                  Agent([kind |-> "save_view", id |-> 0, name |-> UI, spec |-> "u"])>>],
  \* opinions
  [start |-> Plain,
   requests |-> <<User([kind |-> "kpi", value |-> "yes"]),
                  User([kind |-> "role", value |-> "dimension"]),
                  Agent([kind |-> "reset"])>>],
  [start |-> Plain,
   requests |-> <<User([kind |-> "polarity", value |-> "down"]),
                  User([kind |-> "label", value |-> "l"]),
                  Agent([kind |-> "description", value |-> "d"])>>],
  [start |-> Plain,
   requests |-> <<User([kind |-> "settings", display |-> "n", descr |-> None, period |-> None]),
                  User([kind |-> "settings", display |-> None, descr |-> "d", period |-> "day"])>>]}


Symmetry == Permutations(Workers)
=============================================================================
