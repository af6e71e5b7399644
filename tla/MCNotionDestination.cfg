\* Every schema over four names and five types, one change to the mapping by the account
\* and one edit of the schema by somebody at Notion.
SPECIFICATION Spec
CONSTANTS
  Columns <- ThreeColumns  NameOrder <- FourNames  Leads <- TwoLeads
  Types = {"title", "rich_text", "date", "select", "status"}
  Nothing = Nothing
  MaxEdits = 1  MaxChoices = 1  MaxSetups = 1
INVARIANTS NothingIsSilent SuggestionIsSound UneditedTakesLeads
CHECK_DEADLOCK FALSE
