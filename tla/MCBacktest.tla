----------------------------- MODULE MCBacktest ------------------------------
(***************************************************************************)
(* Values for the constants of Backtest: three matches among three teams,  *)
(* one after the other, two at once, or of another sport, the first under  *)
(* way, the last listed twice and first; quotes of one or two bookmakers,  *)
(* spelled in several ways and repeated, or none.                          *)
(***************************************************************************)
EXTENDS Backtest

CONSTANTS m1, m2, m3, bookA, bookB

\* A side wins a quarter, a half or three quarters of its matches.
MCExpected == [g \in -8..8 |-> IF g = 8 THEN 12 ELSE IF g = -8 THEN 4 ELSE 8]

Plain(t) == [text |-> t, spelling |-> "plain"]
Odd(t) == [text |-> t, spelling |-> "odd"]

Match(id, sport, home, away, start) ==
  [id |-> id, sport |-> sport, home |-> home, away |-> away, start |-> start,
   status |-> "scheduled", result |-> NoResult]

First == Match(m1, "tennis", Plain("x"), Plain("y"), 1)
Last3(start) == Match(m3, "tennis", Odd("x"), Plain("y"), start)

MCProgrammes ==
  {<<Last3(3), First, Match(m2, "tennis", Plain("x"), Plain("z"), 2), Last3(3)>>,
   <<First, Match(m2, "tennis", Plain("z"), Plain("y"), 1), Last3(2)>>,
   <<First, Match(m2, "tennis", Plain("z"), Plain("x"), 2), Last3(2)>>,
   <<[First EXCEPT !.status = "live"], Match(m2, "chess", Plain("x"), Plain("y"), 2), Last3(3)>>}

OneQuote(market, selection, bookmaker, odd, at) ==
  [market |-> market, selection |-> selection, bookmaker |-> bookmaker, odds |-> odd, at |-> at]

Q(selection, bookmaker, odd, at) == OneQuote(Plain("1x2"), Plain(selection), bookmaker, odd, at)

Usual == <<Q("home", Plain(bookA), 3, 1), Q("draw", Plain(bookA), 5, 1), Q("away", Plain(bookA), 2, 2)>>
Two == <<Q("home", Plain(bookA), 2, 1), Q("away", Plain(bookB), 3, 2),
         Q("away", Plain(bookA), 5, 1), Q("home", Plain(bookB), 3, 1)>>
Sloppy == <<Q("home", Odd(bookA), 3, 2), Q("home", Plain(bookA), 2, 1),
            OneQuote(Plain("1x2"), Odd("away"), Plain(bookA), 4, 1)>>
TwoMarkets == <<Q("home", Plain(bookA), 3, 1), OneQuote(Odd("1x2"), Plain("home"), Plain(bookA), 2, 1)>>

MCBooks ==
  {(m1 :> first) @@ (m2 :> second) @@ (m3 :> third) :
     first \in {Usual}, second \in {<<>>, Two}, third \in {Usual, Two, Sloppy, TwoMarkets}}

MCWindows == {[from |-> 1, to |-> 3], [from |-> 2, to |-> 3]}

=============================================================================
