------------------------- MODULE MCAggregatesQuery -------------------------
(* AggregatesQuery on a handful of tags and requests.                      *)
EXTENDS AggregatesQuery, TLC

Tag(time, action, brand) ==
    [time |-> time, action |-> action, origin |-> "e1", brand |-> brand, category |-> "e1"]

\* With a minute of four ticks: one before 1970, a view and a buy in minute 0, and one
\* of the other brand and origin in minute 1.
MCTags ==
    {Tag(-1, "VIEW", "e1"), Tag(1, "VIEW", "e1"), Tag(3, "BUY", "e1"),
     [Tag(5, "VIEW", "e2") EXCEPT !.origin = "e2"]}

MCElements == {"e1", "e2"}

\* Each collection numbers its elements; the brands have two ids each, and share one of them.
MCIdsOf ==
    [c \in Collections |->
        IF c = "brand"
          THEN [e \in MCElements |-> IF e = "e1" THEN {0, 1} ELSE {1, 2}]
          ELSE [e \in MCElements |-> IF e = "e1" THEN {0} ELSE {1}]]

Request(from, to, origin, brand) ==
    [action |-> "VIEW", aggregates |-> <<"COUNT">>, from |-> from, to |-> to,
     origin |-> origin, brand |-> brand, category |-> NoElement]

\* All rows; one brand of two rows; one origin, with fractions of a second; requests
\* with nothing to do, too long, not aligned and with a duplicate.
MCRequests ==
    {Request(-4, 4, NoElement, NoElement), Request(0, 8, NoElement, "e1"),
     Request(1, 9, "e1", NoElement), Request(4, 8, "e2", "e2"),
     Request(4, 4, NoElement, "e1"), Request(0, 12, NoElement, NoElement),
     Request(2, 4, NoElement, NoElement), Request(4, 0, NoElement, NoElement),
     [Request(0, 4, NoElement, NoElement) EXCEPT !.aggregates = <<"COUNT", "COUNT">>]}
=============================================================================
