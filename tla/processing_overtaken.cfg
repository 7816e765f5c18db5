SPECIFICATION Spec
PROPERTIES
  AllInOrder
CONSTANTS
  u = u
  v = v
  Arrivals = {1, 2}
  Mailings <- MCMailings
  MaxMishaps = 0
  MaxOverrides = 0
