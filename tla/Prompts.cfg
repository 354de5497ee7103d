SPECIFICATION LineSpec
CONSTANTS
  Flows <- MCFlows
  FilterKeys <- MCFilterKeys
  RuleKeys <- MCRuleKeys
  EditKeys <- MCEditKeys
  MaxPressed <- MCMaxPressed
INVARIANT FilterIsMeant
INVARIANT RuleIsMeant
