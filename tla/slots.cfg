\* Starts and lengths around the hour, around midnight and over several days.
SPECIFICATION Spec
CONSTANTS
  MinHour = 6
  MaxHour = 18
  MinMinutes = 30
  Starts = {330, 360, 540, 570, 600, 660, 1020, 1050, 1200, 1320, 1410}
  Durations = {20, 30, 60, 90, 120, 150, 600, 720, 1440, 1500}
  Offsets = {0, 420}
INVARIANTS
  OverlapMeansCollision
  CollisionMeansOverlap
