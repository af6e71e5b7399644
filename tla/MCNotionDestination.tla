-------------------------- MODULE MCNotionDestination --------------------------
(* An instance of NotionDestination: a field that suits the title and two that suit *)
(* a type of their own, over four names in two spellings.                           *)
EXTENDS NotionDestination

ThreeColumns == <<"date", "name", "source">>

FourNames == <<<<"date", "Title">>, <<"name", "Title">>, <<"name", "lower">>, <<"source", "Title">>>>

\* A lead that fits everywhere, and one whose date and source need a text.
TwoLeads == {[date |-> "day", name |-> "words", source |-> "words"],
             [date |-> "words", name |-> "words", source |-> "list"]}
===============================================================================
