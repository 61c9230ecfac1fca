SPECIFICATION Spec
CONSTANTS
  Nobody = Nobody
  Layout <- TwoBases
  Script <- MCScript
INVARIANT InPlace
