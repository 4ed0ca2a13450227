SPECIFICATION AuthSpec
CONSTANTS
  Users = {ani, budi}
  Spellings = {"plain", "upper", "padded", "bad"}
  Handlers = {p, q}
  MaxTokens = 3
  MaxFaults = 1
SYMMETRY Alike
INVARIANTS RotationIsLinear SessionGoesOn LogoutIsFinal RegistrationIsAtomic
