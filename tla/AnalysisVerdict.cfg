\* One analysis while two administrators retune the bands, by API and by form.
SPECIFICATION Spec
CONSTANTS
  Admins = {a1, a2}
  NoOne = NoOne
  Defaults <- Shipped
  Bodies <- Changes
  Channels = {"api", "form"}
  Readings <- Media
  Reports = {40}
  Sliders = {0, 100}
  NoSlider = NoSlider
  Sizes = {256, 384}
  ConfigSize = 256
SYMMETRY Symmetry
INVARIANTS
  TypeOK
  VerdictIsExplained
  EngineIsNamed
CHECK_DEADLOCK FALSE
